---- MODULE Spec2Model ----
(***************************************************************************)
(* Model of localLLM: the file traversal engine (processFiles), the        *)
(* workspace package registry (findWorkspacePackages, createWorkspaceIndex,*)
(* loadWorkspaceIndex), the module selection (handleModuleFlag), the       *)
(* dependency resolver (getDirectDependencies) and the driver (main).      *)
(*                                                                         *)
(* A file or directory name is a sequence of chunks, "." always being a    *)
(* chunk of its own (<<".", "env">>, <<"a", ".", "js">>), so that          *)
(* String.startsWith and String.endsWith are computed on the name.  A path *)
(* is a sequence of names; an absolute path starts at the filesystem root. *)
(***************************************************************************)
EXTENDS Integers, Sequences, FiniteSets, TLC

VARIABLES
    fs,              \* the filesystem snapshot: the listing of the repository root
    options,         \* processFiles' options: threshold (MB), includeAll
    targetPath,      \* processFiles' targetPath
    pc,              \* position of the thread of control
    stack,           \* processDirectory's activation records (dir, entries, loop index)
    output,          \* processFiles' local `output`, a sequence of file records
    processedFiles,  \* processFiles' local counter
    skippedFiles,    \* processFiles' local counter
    io,              \* the filesystem calls made so far by the current processFiles call
    result,          \* what the last processFiles call returned or raised
    results,         \* the outcomes collected by the repeated-call driver
    main,            \* the state of main(): flags, target list, totals, written files
    reg,             \* the workspace package registry, its index file and the selection
    dep              \* the state of the dependency resolution of the requested files

vars == <<fs, options, targetPath, pc, stack, output, processedFiles,
          skippedFiles, io, result, results, main, reg, dep>>

\* what processFiles never touches
others == <<main, reg, dep>>

-----------------------------------------------------------------------------
(* Bounds of the model *)

\* entries in the listing of the repository root
MaxEntries == 2

\* calls of processFiles on the same target over the same snapshot
MaxRuns == 2

-----------------------------------------------------------------------------
(* Names and paths *)

\* String.prototype.startsWith
StartsWith(name, prefix) ==
    /\ Len(name) >= Len(prefix)
    /\ SubSeq(name, 1, Len(prefix)) = prefix

\* String.prototype.endsWith
EndsWith(name, suffix) ==
    /\ Len(name) >= Len(suffix)
    /\ SubSeq(name, Len(name) - Len(suffix) + 1, Len(name)) = suffix

\* the repository root, an absolute path
repoRoot == << <<"repo">> >>

\* path.join(dir, entry.name)
JoinName(dir, name) == Append(dir, name)

\* path.basename(fullPath)
Basename(p) == p[Len(p)]

\* path.relative(repoRoot, fullPath), for a path that may or may not lie below from
RECURSIVE CommonPrefixLen(_, _)
CommonPrefixLen(a, b) ==
    IF a # <<>> /\ b # <<>> /\ Head(a) = Head(b)
    THEN 1 + CommonPrefixLen(Tail(a), Tail(b))
    ELSE 0

Relative(from, to) ==
    LET k == CommonPrefixLen(from, to)
    IN  [i \in 1..(Len(from) - k) |-> <<"..">>] \o SubSeq(to, k + 1, Len(to))

-----------------------------------------------------------------------------
(* The exclusion policy (exclusions.js) *)

directoryExclusions == { <<"node_modules">>, <<".", "git">> }

fileExclusions ==
    { <<"package-lock", ".", "json">>, <<"pnpm-lock", ".", "yaml">>, <<"yarn", ".", "lock">> }

prefixExclusions == { <<".">> }

-----------------------------------------------------------------------------
(* Filesystem snapshots *)

\* --threshold default, in MB
DefaultThreshold == 10

\* options.threshold * 1024 * 1024
thresholdBytesOf(opts) == opts.threshold * 1024 * 1024

NoData == [type |-> "none"]

\* a regular file whose content is `data`
DataFile(name, size, binary, statOk, readOk, data) ==
    [name |-> name, kind |-> "file", size |-> size, binary |-> binary,
     statOk |-> statOk, readOk |-> readOk, entries |-> <<>>, data |-> data]

File(name, size, binary, statOk, readOk) ==
    DataFile(name, size, binary, statOk, readOk, NoData)

Dir(name, listOk, entries) ==
    [name |-> name, kind |-> "dir", size |-> 0, binary |-> FALSE,
     statOk |-> TRUE, readOk |-> listOk, entries |-> entries, data |-> NoData]

\* a socket, a FIFO, a symbolic link as readdir reports it
Special(name) ==
    [name |-> name, kind |-> "other", size |-> 0, binary |-> FALSE,
     statOk |-> TRUE, readOk |-> TRUE, entries |-> <<>>, data |-> NoData]

Missing ==
    [name |-> <<>>, kind |-> "missing", size |-> 0, binary |-> FALSE,
     statOk |-> FALSE, readOk |-> FALSE, entries |-> <<>>, data |-> NoData]

LimitBytes == DefaultThreshold * 1024 * 1024

fileText   == File(<<"a", ".", "js">>, 10, FALSE, TRUE, TRUE)
fileEdge   == File(<<"edge", ".", "js">>, LimitBytes, FALSE, TRUE, TRUE)
fileBig    == File(<<"big", ".", "js">>, LimitBytes + 1, FALSE, TRUE, TRUE)
fileBin    == File(<<"img", ".", "png">>, 10, TRUE, TRUE, TRUE)
fileLock   == File(<<"yarn", ".", "lock">>, 10, FALSE, TRUE, TRUE)
fileDot    == File(<<".", "env">>, LimitBytes + 1, TRUE, TRUE, TRUE)
fileGone   == File(<<"gone", ".", "js">>, 10, FALSE, FALSE, FALSE)
fileLocked == File(<<"locked", ".", "js">>, 10, FALSE, TRUE, FALSE)

Leaves ==
    { fileText, fileEdge, fileBig, fileBin, fileLock, fileDot, fileGone,
      fileLocked, Special(<<"sock">>) }

Dirs ==
    { Dir(<<"src">>, TRUE, <<>>),
      Dir(<<"src">>, TRUE, <<fileBig, Dir(<<"lib">>, TRUE, <<fileText>>)>>),
      Dir(<<"src">>, TRUE, <<Dir(<<"node_modules">>, TRUE, <<fileText>>), fileBin>>),
      Dir(<<"node_modules">>, TRUE, <<fileText, Dir(<<"dep">>, TRUE, <<fileEdge>>)>>),
      Dir(<<".", "git">>, TRUE, <<fileText>>),
      Dir(<<".", "github">>, TRUE, <<fileText>>),
      Dir(<<"priv">>, FALSE, <<fileText>>) }

TopEntries == Leaves \cup Dirs

SeqsUpTo(S, n) == UNION { [1..k -> S] : k \in 0..n }

DistinctNames(l) == \A i, j \in 1..Len(l) : l[i].name = l[j].name => i = j

RootListings == { l \in SeqsUpTo(TopEntries, MaxEntries) : DistinctNames(l) }

\* the entry a path names in the snapshot `root` (the listing of repoRoot)
RECURSIVE Walk(_, _)
Walk(entry, rest) ==
    IF rest = <<>> THEN entry
    ELSE IF entry.kind # "dir" THEN Missing
    ELSE IF \E i \in 1..Len(entry.entries) : entry.entries[i].name = Head(rest)
         THEN Walk(entry.entries[CHOOSE i \in 1..Len(entry.entries) :
                                    entry.entries[i].name = Head(rest)], Tail(rest))
         ELSE Missing

Lookup(root, p) ==
    IF Len(p) >= Len(repoRoot) /\ SubSeq(p, 1, Len(repoRoot)) = repoRoot
    THEN Walk(Dir(Basename(repoRoot), TRUE, root), SubSeq(p, Len(repoRoot) + 1, Len(p)))
    ELSE Missing

-----------------------------------------------------------------------------
(* processFiles *)

NoResult == [status |-> "none"]

NoIo == [readdir |-> <<>>, stat |-> <<>>, sniff |-> <<>>, read |-> <<>>]

\* the flag taken as unset
includeAll_unset == FALSE

\* const { threshold, includeAll, debug, repoRoot } = options
includeAll == options.includeAll

thresholdBytes == thresholdBytesOf(options)

\* the activation record of processDirectory that is running
Top == stack[Len(stack)]

\* `entry` of the running loop iteration, and its fullPath
InLoop == pc = "traverse" /\ stack # <<>> /\ Top.i <= Len(Top.entries)

Cur == Top.entries[Top.i]

CurPath == JoinName(Top.dir, Cur.name)

\* `for (const entry of entries)`: on to the next entry
\* the loop stays on its entry
NextEntry_stays == stack

\* for (const entry of entries): the loop moves to its next entry
NextEntry == [stack EXCEPT ![Len(stack)].i = @ + 1]

\* the exclusion test without the prefix exclusions
isExcludedDirectory_namesOnly(name) == name \in directoryExclusions

\* the exclusion test of processDirectory
isExcludedDirectory(name) ==
    \/ name \in directoryExclusions
    \/ \E prefix \in prefixExclusions : StartsWith(name, prefix)

\* no file name is excluded
isExcludedFile_never(fileName) == FALSE

\* the exclusion test of processSingleFile
isExcludedFile(fileName) ==
    \/ fileName \in fileExclusions
    \/ \E prefix \in prefixExclusions : StartsWith(fileName, prefix)

\* the comparison reversed
exceedsThreshold_reversed(size, limit) == size < limit

\* stats.size > thresholdBytes
exceedsThreshold(size, limit) == size > limit

\* the record appended for one file: separator, "File:" header with the path
\* relative to repoRoot, "Size:" header, separator, content
FileRecord(fullPath, f) ==
    [file |-> Relative(repoRoot, fullPath), size |-> f.size,
     content |-> [of |-> fullPath, binary |-> f.binary, data |-> f.data]]

Logged(log, p) == [io EXCEPT ![log] = Append(@, p)]

\* the sniffer's answer negated
isBinaryFile_negated(f) == ~f.binary

\* await isBinaryFile(fullPath), for a file that can be opened
isBinaryFile(f) == f.binary

\* processSingleFile(fullPath, stats): f is the file the path names, whose
\* stat has just succeeded
processSingleFile(fullPath, f) ==
    LET statted == Logged("stat", fullPath)
        sniffed == [statted EXCEPT !.sniff = Append(@, fullPath)]
        readAll == [statted EXCEPT !.read = Append(@, fullPath)]
        readChecked == [sniffed EXCEPT !.read = Append(@, fullPath)]
    IN
    IF ~includeAll /\ isExcludedFile(Basename(fullPath)) THEN
        /\ skippedFiles' = skippedFiles + 1
        /\ io' = statted
        /\ UNCHANGED <<output, processedFiles>>
    ELSE IF ~includeAll /\ exceedsThreshold(f.size, thresholdBytes) THEN
        /\ skippedFiles' = skippedFiles + 1
        /\ io' = statted
        /\ UNCHANGED <<output, processedFiles>>
    ELSE IF ~includeAll /\ ~f.readOk THEN
        \* isBinaryFile throws, caught by processSingleFile
        /\ skippedFiles' = skippedFiles + 1
        /\ io' = sniffed
        /\ UNCHANGED <<output, processedFiles>>
    ELSE IF ~includeAll /\ isBinaryFile(f) THEN
        /\ skippedFiles' = skippedFiles + 1
        /\ io' = sniffed
        /\ UNCHANGED <<output, processedFiles>>
    ELSE IF ~f.readOk THEN
        \* fs.readFile throws, caught by processSingleFile
        /\ skippedFiles' = skippedFiles + 1
        /\ io' = readAll
        /\ UNCHANGED <<output, processedFiles>>
    ELSE
        /\ output' = Append(output, FileRecord(fullPath, f))
        /\ processedFiles' = processedFiles + 1
        /\ io' = IF includeAll THEN readAll ELSE readChecked
        /\ UNCHANGED skippedFiles

\* the accumulators kept from one call to the next
processFilesEntry_keepsLocals ==
    /\ pc = "call"
    /\ io' = NoIo
    /\ stack' = <<>>
    /\ pc' = "stat"
    /\ UNCHANGED <<fs, options, targetPath, output, processedFiles,
                   skippedFiles, result, results, others>>

\* entry of processFiles: the locals are initialised
processFilesEntry ==
    /\ pc = "call"
    /\ output' = <<>>
    /\ processedFiles' = 0
    /\ skippedFiles' = 0
    /\ io' = NoIo
    /\ stack' = <<>>
    /\ pc' = "stat"
    /\ UNCHANGED <<fs, options, targetPath, result, results, others>>

\* fs.stat(targetPath) fails, or the target is neither a file nor a directory:
\* the catch of processFiles rethrows
TargetInvalid ==
    /\ pc = "stat"
    /\ LET t == Lookup(fs, targetPath)
       IN  \/ ~t.statOk
           \/ t.kind \notin {"file", "dir"}
    /\ io' = Logged("stat", targetPath)
    /\ pc' = "raised"
    /\ result' = [status |-> "raised"]
    /\ UNCHANGED <<fs, options, targetPath, stack, output, processedFiles,
                   skippedFiles, results, others>>

\* stats.isFile(): processSingleFile(targetPath, stats)
TargetIsFile ==
    /\ pc = "stat"
    /\ LET t == Lookup(fs, targetPath)
       IN  /\ t.statOk
           /\ t.kind = "file"
           /\ processSingleFile(targetPath, t)
    /\ pc' = "finish"
    /\ UNCHANGED <<fs, options, targetPath, stack, result, results, others>>

\* stats.isDirectory(): processDirectory(targetPath), whose readdir succeeds
TargetIsDirectory ==
    /\ pc = "stat"
    /\ LET t == Lookup(fs, targetPath)
       IN  /\ t.statOk
           /\ t.kind = "dir"
           /\ t.readOk
           /\ stack' = <<[dir |-> targetPath, entries |-> t.entries, i |-> 1]>>
    /\ io' = [io EXCEPT !.stat = Append(@, targetPath),
                        !.readdir = Append(@, targetPath)]
    /\ pc' = "traverse"
    /\ UNCHANGED <<fs, options, targetPath, output, processedFiles,
                   skippedFiles, result, results, others>>

\* fs.readdir fails (on the target or on a subdirectory): nothing in
\* processDirectory catches it, processFiles rethrows
ReaddirFails ==
    /\ \/ /\ pc = "stat"
          /\ LET t == Lookup(fs, targetPath)
             IN  t.statOk /\ t.kind = "dir" /\ ~t.readOk
          /\ io' = [io EXCEPT !.stat = Append(@, targetPath),
                              !.readdir = Append(@, targetPath)]
       \/ /\ InLoop
          /\ Cur.kind = "dir"
          /\ ~(~includeAll /\ isExcludedDirectory(Cur.name))
          /\ ~Cur.readOk
          /\ io' = Logged("readdir", CurPath)
    /\ pc' = "raised"
    /\ result' = [status |-> "raised"]
    /\ UNCHANGED <<fs, options, targetPath, stack, output, processedFiles,
                   skippedFiles, results, others>>

\* an excluded directory: `continue`
PruneDirectory ==
    /\ InLoop
    /\ Cur.kind = "dir"
    /\ ~includeAll /\ isExcludedDirectory(Cur.name)
    /\ stack' = NextEntry
    /\ UNCHANGED <<fs, options, targetPath, pc, output, processedFiles,
                   skippedFiles, io, result, results, others>>

\* await processDirectory(fullPath): readdir, then the loop over its entries;
\* the caller's loop goes on with its next entry when the call returns
DescendDirectory ==
    /\ InLoop
    /\ Cur.kind = "dir"
    /\ ~(~includeAll /\ isExcludedDirectory(Cur.name))
    /\ Cur.readOk
    /\ stack' = Append(NextEntry, [dir |-> CurPath, entries |-> Cur.entries, i |-> 1])
    /\ io' = Logged("readdir", CurPath)
    /\ UNCHANGED <<fs, options, targetPath, pc, output, processedFiles,
                   skippedFiles, result, results, others>>

\* an entry that is neither a directory nor a file is handed to processSingleFile
SkipNonFile_visits ==
    /\ InLoop
    /\ Cur.kind \notin {"dir", "file"}
    /\ processSingleFile(CurPath, Cur)
    /\ stack' = NextEntry
    /\ UNCHANGED <<fs, options, targetPath, pc, result, results, others>>

\* if (!entry.isFile()) continue
SkipNonFile ==
    /\ InLoop
    /\ Cur.kind \notin {"dir", "file"}
    /\ stack' = NextEntry
    /\ UNCHANGED <<fs, options, targetPath, pc, output, processedFiles,
                   skippedFiles, io, result, results, others>>

\* fs.stat(fullPath) throws and nothing catches it in the loop
StatFails_aborts ==
    /\ InLoop
    /\ Cur.kind = "file"
    /\ ~Cur.statOk
    /\ io' = Logged("stat", CurPath)
    /\ pc' = "raised"
    /\ result' = [status |-> "raised"]
    /\ UNCHANGED <<fs, options, targetPath, stack, output, processedFiles,
                   skippedFiles, results, others>>

\* fs.stat(fullPath) throws and the catch counts nothing
StatFails_uncounted ==
    /\ InLoop
    /\ Cur.kind = "file"
    /\ ~Cur.statOk
    /\ io' = Logged("stat", CurPath)
    /\ stack' = NextEntry
    /\ UNCHANGED <<fs, options, targetPath, pc, output, processedFiles,
                   skippedFiles, result, results, others>>

\* fs.stat(fullPath) throws: the catch of the loop counts the file as skipped
StatFails ==
    /\ InLoop
    /\ Cur.kind = "file"
    /\ ~Cur.statOk
    /\ skippedFiles' = skippedFiles + 1
    /\ io' = Logged("stat", CurPath)
    /\ stack' = NextEntry
    /\ UNCHANGED <<fs, options, targetPath, pc, output, processedFiles,
                   result, results, others>>

\* stats = await fs.stat(fullPath); await processSingleFile(fullPath, stats)
VisitFile ==
    /\ InLoop
    /\ Cur.kind = "file"
    /\ Cur.statOk
    /\ processSingleFile(CurPath, Cur)
    /\ stack' = NextEntry
    /\ UNCHANGED <<fs, options, targetPath, pc, result, results, others>>

\* the loop of processDirectory is over: return to the caller
LeaveDirectory ==
    /\ pc = "traverse"
    /\ stack # <<>>
    /\ Top.i > Len(Top.entries)
    /\ stack' = SubSeq(stack, 1, Len(stack) - 1)
    /\ pc' = IF Len(stack) = 1 THEN "finish" ELSE "traverse"
    /\ UNCHANGED <<fs, options, targetPath, output, processedFiles,
                   skippedFiles, io, result, results, others>>

\* return { output, processedFiles, skippedFiles }
processFilesReturn ==
    /\ pc = "finish"
    /\ result' = [status |-> "returned", output |-> output,
                  processedFiles |-> processedFiles, skippedFiles |-> skippedFiles]
    /\ pc' = "returned"
    /\ UNCHANGED <<fs, options, targetPath, stack, output, processedFiles,
                   skippedFiles, io, results, others>>

processFilesStep ==
    \/ processFilesEntry
    \/ TargetInvalid
    \/ TargetIsFile
    \/ TargetIsDirectory
    \/ ReaddirFails
    \/ PruneDirectory
    \/ DescendDirectory
    \/ SkipNonFile
    \/ StatFails
    \/ VisitFile
    \/ LeaveDirectory
    \/ processFilesReturn

-----------------------------------------------------------------------------
(* Repeated calls of processFiles on one target over one snapshot *)

NoMain == [mode |-> "none"]

NoReg == [mode |-> "none"]

NoDep == [mode |-> "none"]

\* the targets a call is given: the repository root, one of its entries, or
\* a path that does not exist
TargetChoices(root) ==
    {repoRoot} \cup { JoinName(repoRoot, root[i].name) : i \in 1..Len(root) }
               \cup { JoinName(repoRoot, <<"absent">>) }

Init ==
    /\ fs \in RootListings
    /\ options \in [threshold : {DefaultThreshold}, includeAll : BOOLEAN]
    /\ targetPath \in TargetChoices(fs)
    /\ pc = "idle"
    /\ stack = <<>>
    /\ output = <<>>
    /\ processedFiles = 0
    /\ skippedFiles = 0
    /\ io = NoIo
    /\ result = NoResult
    /\ results = <<>>
    /\ main = NoMain
    /\ reg = NoReg
    /\ dep = NoDep

\* processFiles(targetPath, options) is called
Call ==
    /\ pc = "idle"
    /\ Len(results) < MaxRuns
    /\ pc' = "call"
    /\ UNCHANGED <<fs, options, targetPath, stack, output, processedFiles,
                   skippedFiles, io, result, results, others>>

\* the caller receives what the call returned or raised
Collect ==
    /\ pc \in {"returned", "raised"}
    /\ main = NoMain
    /\ results' = Append(results, result)
    /\ pc' = "idle"
    /\ UNCHANGED <<fs, options, targetPath, stack, output, processedFiles,
                   skippedFiles, io, result, others>>

Next ==
    \/ Call
    \/ processFilesEntry
    \/ TargetInvalid
    \/ TargetIsFile
    \/ TargetIsDirectory
    \/ ReaddirFails
    \/ PruneDirectory
    \/ DescendDirectory
    \/ SkipNonFile
    \/ StatFails
    \/ VisitFile
    \/ LeaveDirectory
    \/ processFilesReturn
    \/ Collect

Spec == Init /\ [][Next]_vars

\* a call of processFiles that has started is run on by the event loop: each
\* await of the call is resumed when the filesystem answers
SpecFair == Spec /\ WF_vars(processFilesStep)

-----------------------------------------------------------------------------
(* Workspace snapshots: manifests and package directories *)

Dot == <<".">>

DotDot == <<"..">>

nmWorkspaceYaml == <<"pnpm-workspace", ".", "yaml">>

nmPackageJson == <<"package", ".", "json">>

\* a falsy or absent `name`, `path` of a JSON record
NoName == ""

NoPath == <<>>

\* pnpm-workspace.yaml as yaml.load returns it: `packages` a list of patterns
\* (isArray) or something else
YamlData(isArray, patterns) ==
    [type |-> "yaml", isArray |-> isArray, patterns |-> patterns]

\* a text that the parser rejects
Garbage == [type |-> "garbage"]

\* package.json as JSON.parse returns it
ManifestData(name, description) ==
    [type |-> "json", name |-> name, description |-> description]

TextFile(name, data) == DataFile(name, 10, FALSE, TRUE, TRUE, data)

\* path.normalize: "." segments dropped, ".." resolved
RECURSIVE NormalizeOnto(_, _)
NormalizeOnto(acc, p) ==
    IF p = <<>> THEN acc
    ELSE IF Head(p) = Dot THEN NormalizeOnto(acc, Tail(p))
    ELSE IF Head(p) = DotDot /\ acc # <<>> /\ acc[Len(acc)] # DotDot
         THEN NormalizeOnto(SubSeq(acc, 1, Len(acc) - 1), Tail(p))
         ELSE NormalizeOnto(Append(acc, Head(p)), Tail(p))

\* path.join(a, b)
PathJoin(a, b) == NormalizeOnto(<<>>, a \o b)

\* path.dirname
Dirname(p) == SubSeq(p, 1, Len(p) - 1)

\* the regular files below a listing, as absolute paths
RECURSIVE FilePaths(_, _)
FilePaths(entries, dir) ==
    IF entries = <<>> THEN {}
    ELSE LET e == Head(entries)
             q == JoinName(dir, e.name)
         IN  (IF e.kind = "file" THEN {q}
              ELSE IF e.kind = "dir" /\ e.readOk THEN FilePaths(e.entries, q)
              ELSE {}) \cup FilePaths(Tail(entries), dir)

Wildcard == <<"*">>

Globstar == <<"**">>

\* glob's match of a path against a pattern: "*" is one name, "**" any number
\* of names, neither matching a name that starts with "." (dot: false)
RECURSIVE GlobMatch(_, _)
GlobMatch(pat, p) ==
    IF pat = <<>> THEN p = <<>>
    ELSE IF Head(pat) = Globstar THEN
        \/ GlobMatch(Tail(pat), p)
        \/ (p # <<>> /\ ~StartsWith(Head(p), Dot) /\ GlobMatch(pat, Tail(p)))
    ELSE IF Head(pat) = Wildcard THEN
        p # <<>> /\ ~StartsWith(Head(p), Dot) /\ GlobMatch(Tail(pat), Tail(p))
    ELSE p # <<>> /\ Head(p) = Head(pat) /\ GlobMatch(Tail(pat), Tail(p))

\* glob(globPatterns, { absolute: true }): the set of the files matched
Glob(root, globPatterns) ==
    { f \in FilePaths(root, repoRoot) :
        \E i \in 1..Len(globPatterns) : GlobMatch(globPatterns[i], f) }

\* the orders in which glob may report a set of paths
Orderings(S) ==
    { o \in [1..Cardinality(S) -> S] : \A i, j \in 1..Cardinality(S) : o[i] = o[j] => i = j }

-----------------------------------------------------------------------------
(* Map, as used for the registry: keys in insertion order *)

MapHas(m, k) == \E i \in 1..Len(m) : m[i].key = k

MapGet(m, k) == m[CHOOSE i \in 1..Len(m) : m[i].key = k].value

\* Map.prototype.set: a present key keeps its place and takes the new value
MapSet(m, k, v) ==
    IF MapHas(m, k)
    THEN [i \in 1..Len(m) |-> IF m[i].key = k THEN [key |-> k, value |-> v] ELSE m[i]]
    ELSE Append(m, [key |-> k, value |-> v])

MapKeys(m) == { m[i].key : i \in 1..Len(m) }

-----------------------------------------------------------------------------
(* findWorkspacePackages *)

Warning(msg, name, path) == [msg |-> msg, name |-> name, path |-> path]

\* path.dirname(pkgJsonPath)
packageDirOf(pkgJsonPath) == Dirname(pkgJsonPath)

\* the loop over packageJsonPaths
RECURSIVE registerManifests(_, _, _, _, _)
registerManifests(root, paths, packages, warnings, debug) ==
    IF paths = <<>> THEN [packages |-> packages, warnings |-> warnings]
    ELSE LET pkgJsonPath == Head(paths)
             f == Lookup(root, pkgJsonPath)
         IN  IF ~f.readOk \/ f.data.type # "json" THEN
                 \* fs.readFile or JSON.parse throws: warned and skipped
                 registerManifests(root, Tail(paths), packages,
                     Append(warnings, Warning("invalid package.json", NoName, pkgJsonPath)),
                     debug)
             ELSE IF f.data.name # NoName THEN
                 registerManifests(root, Tail(paths),
                     MapSet(packages, f.data.name,
                            [path |-> packageDirOf(pkgJsonPath),
                             description |-> f.data.description]),
                     warnings, debug)
             ELSE
                 registerManifests(root, Tail(paths), packages,
                     IF debug
                     THEN Append(warnings, Warning("package.json without a name", NoName, pkgJsonPath))
                     ELSE warnings,
                     debug)

\* what reading and parsing pnpm-workspace.yaml leaves in globPatterns:
\* the patterns of the manifest, the fallback pattern when the manifest cannot
\* be read or parsed, and nothing (undefined) when it parses without a
\* `packages` array
globPatternsOf(root) ==
    LET y == Lookup(root, JoinName(repoRoot, nmWorkspaceYaml))
    IN  IF y.kind # "file" \/ ~y.readOk \/ y.data.type # "yaml" THEN
            [defined |-> TRUE,
             patterns |-> << PathJoin(repoRoot, <<Globstar, nmPackageJson>>) >>]
        ELSE IF y.data.isArray THEN
            [defined |-> TRUE,
             patterns |-> [i \in 1..Len(y.data.patterns) |->
                             PathJoin(repoRoot, Append(y.data.patterns[i], nmPackageJson))]]
        ELSE [defined |-> FALSE, patterns |-> <<>>]

-----------------------------------------------------------------------------
(* createWorkspaceIndex, loadWorkspaceIndex *)

\* JSON.stringify of a list of records
JSONstringify(items) == [type |-> "json", isArray |-> TRUE, items |-> items]

\* the arguments of path.relative exchanged
indexPathOf_swapped(repoPath, dir) == <<Dot>> \o Relative(dir, repoPath)

\* `./${path.relative(repoPath, packageInfo.path)}`
indexPathOf(repoPath, dir) == <<Dot>> \o Relative(repoPath, dir)

\* Array.from(allPackages.entries()).map(...)
workspaceDataOf(allPackages, repoPath) ==
    [i \in 1..Len(allPackages) |->
        [name |-> allPackages[i].key,
         path |-> indexPathOf(repoPath, allPackages[i].value.path),
         description |-> allPackages[i].value.description]]

\* workspaceData.forEach: the records with a name and a path enter the map
RECURSIVE loadEntries(_, _)
loadEntries(items, packageMap) ==
    IF items = <<>> THEN packageMap
    ELSE LET pkg == Head(items)
         IN  IF pkg.name # NoName /\ pkg.path # NoPath
             THEN loadEntries(Tail(items),
                     MapSet(packageMap, pkg.name,
                            [path |-> pkg.path, description |-> pkg.description]))
             ELSE loadEntries(Tail(items), packageMap)

\* a load that keeps every record of the list, usable or not
loadWorkspaceIndexOf_allEntries(indexFile) ==
    [i \in 1..Len(indexFile.items) |->
        [key |-> indexFile.items[i].name,
         value |-> [path |-> indexFile.items[i].path,
                    description |-> indexFile.items[i].description]]]

\* loadWorkspaceIndex(repoRoot, debug) for the content of workspace-index.js:
\* a missing file, a text that is no JSON and a JSON value that is no list all
\* end in the catch, which returns an empty map
loadWorkspaceIndexOf(indexFile) ==
    IF indexFile.type = "json" /\ indexFile.isArray
    THEN loadEntries(indexFile.items, <<>>)
    ELSE <<>>

\* path.join(repoRoot, packageDir), the directory an index entry stands for
resolveIndexPath(root, packageDir) == PathJoin(root, packageDir)

-----------------------------------------------------------------------------
(* handleModuleFlag *)

\* the warnings of requestedModules.forEach
RECURSIVE moduleWarnings(_, _)
moduleWarnings(allPackages, requestedModules) ==
    IF requestedModules = <<>> THEN <<>>
    ELSE (IF MapHas(allPackages, Head(requestedModules)) THEN <<>>
          ELSE << Warning("module not found in workspace", Head(requestedModules), NoPath) >>)
         \o moduleWarnings(allPackages, Tail(requestedModules))

\* the directories of the registry entries that were requested, in the
\* order of the registry
moduleDirs_registryOrder(allPackages, requestedModules) ==
    LET hit == SelectSeq(allPackages,
                   LAMBDA e : \E i \in 1..Len(requestedModules) : requestedModules[i] = e.key)
    IN  [i \in 1..Len(hit) |-> hit[i].value.path]

\* the directories pushed by requestedModules.forEach
RECURSIVE moduleDirs(_, _)
moduleDirs(allPackages, requestedModules) ==
    IF requestedModules = <<>> THEN <<>>
    ELSE (IF MapHas(allPackages, Head(requestedModules))
          THEN << MapGet(allPackages, Head(requestedModules)).path >>
          ELSE <<>>)
         \o moduleDirs(allPackages, Tail(requestedModules))

\* the branch for an empty registry never taken
nothingToFilter_never(allPackages, requestedModules) == FALSE

\* allPackages.size === 0 && requestedModules.length > 0
nothingToFilter(allPackages, requestedModules) ==
    Len(allPackages) = 0 /\ Len(requestedModules) > 0

\* handleModuleFlag(allPackages, repoPath, requestedModules, debug), for a
\* modules flag that is a list (requested.defined) or undefined
handleModuleFlagOf(allPackages, repoPath, requested) ==
    IF ~requested.defined THEN
        \* requestedModules.length of undefined: TypeError
        [status |-> "raised", targetPackageDirs |-> <<>>, processingMode |-> "unknown",
         warnings |-> <<>>]
    ELSE IF Len(requested.names) = 0 THEN
        [status |-> "returned", targetPackageDirs |-> <<repoPath>>,
         processingMode |-> "repo", warnings |-> <<>>]
    ELSE IF nothingToFilter(allPackages, requested.names) THEN
        [status |-> "returned", targetPackageDirs |-> <<>>, processingMode |-> "modules",
         warnings |-> << Warning("no packages found", NoName, NoPath) >>]
    ELSE LET dirs == moduleDirs(allPackages, requested.names)
         IN  [status |-> "returned", targetPackageDirs |-> dirs,
              processingMode |-> "modules",
              warnings |-> moduleWarnings(allPackages, requested.names)
                  \o (IF Len(dirs) = 0
                      THEN << Warning("none of the requested modules found", NoName, NoPath) >>
                      ELSE <<>>)]

-----------------------------------------------------------------------------
(* Source files and their analysis: getExportsFromFile, getImportsFromFile *)

\* a module specifier that is not a string literal
NoSource == ""

\* a node of the syntax tree that the analyzers visit: `source` is the module
\* specifier, `specifiers` the bindings (local name, imported or exported
\* name), `declared` the names of an exported declaration, `exported` the
\* alias of `export * as X`
Node(type, source, specifiers, declared, exported) ==
    [type |-> type, source |-> source, specifiers |-> specifiers,
     declared |-> declared, exported |-> exported]

Binding(local, outer) == [local |-> local, outer |-> outer]

\* a source text: whether acorn parses it, the words in it (what grep -w
\* can match) and the nodes of its tree in source order
SourceData(parses, words, body) ==
    [type |-> "source", parses |-> parses, words |-> words, body |-> body]

\* the names one node adds to the exports
exportsOfNode(n) ==
    IF n.type = "ExportNamedDeclaration"
    THEN n.declared \o [i \in 1..Len(n.specifiers) |-> n.specifiers[i].outer]
    ELSE IF n.type = "ExportDefaultDeclaration" THEN <<"default">>
    ELSE IF n.type = "ExportAllDeclaration" /\ n.exported # NoName THEN <<n.exported>>
    ELSE <<>>

RECURSIVE exportsOfBody(_)
exportsOfBody(body) ==
    IF body = <<>> THEN <<>>
    ELSE exportsOfNode(Head(body)) \o exportsOfBody(Tail(body))

\* getExportsFromFile(filePath): the exported names, or the error it rethrows
\* when the file cannot be read or parsed
getExportsFromFile(root, filePath) ==
    LET f == Lookup(root, filePath)
    IN  IF f.kind # "file" \/ ~f.readOk \/ f.data.type # "source" \/ ~f.data.parses
        THEN [status |-> "raised", exports |-> {}]
        ELSE LET names == exportsOfBody(f.data.body)
             IN  [status |-> "returned", exports |-> { names[i] : i \in 1..Len(names) }]

ImportItem(function, package) == [function |-> function, package |-> package]

\* the import references one node adds; function NoName is an absent `function`
importsOfNode(n) ==
    IF n.type = "ImportDeclaration" /\ n.source # NoSource THEN
        IF Len(n.specifiers) = 0 THEN << ImportItem(NoName, n.source) >>
        ELSE [i \in 1..Len(n.specifiers) |-> ImportItem(n.specifiers[i].local, n.source)]
    ELSE IF n.type = "ExportNamedDeclaration" /\ n.source # NoSource THEN
        [i \in 1..Len(n.specifiers) |-> ImportItem(n.specifiers[i].local, n.source)]
    ELSE IF n.type = "ExportAllDeclaration" /\ n.source # NoSource THEN
        << ImportItem(n.exported, n.source) >>
    ELSE IF n.type \in {"ImportExpression", "RequireCall"} /\ n.source # NoSource THEN
        << ImportItem(NoName, n.source) >>
    ELSE <<>>

RECURSIVE importsOfBody(_)
importsOfBody(body) ==
    IF body = <<>> THEN <<>>
    ELSE importsOfNode(Head(body)) \o importsOfBody(Tail(body))

\* getImportsFromFile(filePath)
getImportsFromFile(root, filePath) ==
    LET f == Lookup(root, filePath)
    IN  IF f.kind # "file" \/ ~f.readOk \/ f.data.type # "source" \/ ~f.data.parses
        THEN [status |-> "raised", imports |-> <<>>]
        ELSE [status |-> "returned", imports |-> importsOfBody(f.data.body)]

-----------------------------------------------------------------------------
(* The workspaces of the model: <repo>/pkg-a, <repo>/pkg-b, node_modules *)

nmIndexJs == <<"index", ".", "js">>

nmUtilJs == <<"util", ".", "js">>

nmMainJs == <<"main", ".", "js">>

dirPkgA == JoinName(repoRoot, <<"pkg-a">>)

dirPkgB == JoinName(repoRoot, <<"pkg-b">>)

\* export function helper() {}
srcIndexJs ==
    TextFile(nmIndexJs,
        SourceData(TRUE, {"export", "function", "helper"},
            << Node("ExportNamedDeclaration", NoSource, <<>>, <<"helper">>, NoName) >>))

\* import { helper } from "./index.js"; export const other = helper;
srcUtilJs ==
    TextFile(nmUtilJs,
        SourceData(TRUE, {"import", "helper", "from", "index", "js", "export", "const", "other"},
            << Node("ImportDeclaration", "./index.js",
                    <<Binding("helper", "helper")>>, <<>>, NoName),
               Node("ExportNamedDeclaration", NoSource, <<>>, <<"other">>, NoName) >>))

\* import { helper } from "pkg-a";
srcMainJs ==
    TextFile(nmMainJs,
        SourceData(TRUE, {"import", "helper", "from", "pkg", "a"},
            << Node("ImportDeclaration", "pkg-a",
                    <<Binding("helper", "helper")>>, <<>>, NoName) >>))

ManifestFile(data) == TextFile(nmPackageJson, data)

\* <repo>/node_modules/dep/package.json, an installed dependency
dirNodeModules ==
    Dir(<<"node_modules">>, TRUE,
        << Dir(<<"dep">>, TRUE, << ManifestFile(ManifestData("dep", "")) >>) >>)

\* the listing of the repository root: the workspace manifest (or none), a
\* manifest of the root (or none), the two package directories, node_modules
Workspace(yamlPart, rootPart, manifestA, sourcesA, sourcesB) ==
    yamlPart \o rootPart
    \o << Dir(<<"pkg-a">>, TRUE, <<manifestA>> \o sourcesA),
          Dir(<<"pkg-b">>, TRUE, <<ManifestFile(ManifestData("pkg-b", "b"))>> \o sourcesB),
          dirNodeModules >>

\* the `packages` lists of pnpm-workspace.yaml
PatternLists ==
    { <<>>,
      << <<Wildcard>> >>,
      << <<<<"pkg-a">>>>, <<Wildcard>> >>,
      << <<<<"packages">>, Wildcard>> >> }

YamlParts ==
    { <<>>,
      << TextFile(nmWorkspaceYaml, Garbage) >>,
      << TextFile(nmWorkspaceYaml, YamlData(FALSE, <<>>)) >> }
    \cup { << TextFile(nmWorkspaceYaml, YamlData(TRUE, pl)) >> : pl \in PatternLists }

RootParts == { <<>>, << ManifestFile(ManifestData("root", "")) >> }

ManifestsA ==
    { ManifestFile(ManifestData("pkg-a", "a")),
      ManifestFile(ManifestData("pkg-b", "twin")),
      ManifestFile(ManifestData(NoName, "")),
      ManifestFile(Garbage),
      DataFile(nmPackageJson, 10, FALSE, TRUE, FALSE, ManifestData("pkg-a", "a")) }

RegistrySnapshots ==
    { Workspace(y, r, a, <<srcIndexJs, srcUtilJs>>, <<srcMainJs>>) :
        y \in YamlParts, r \in RootParts, a \in ManifestsA }

-----------------------------------------------------------------------------
(* The registry run: discovery, index written and read back, selection *)

IndexAbsent == [type |-> "absent", isArray |-> FALSE, items |-> <<>>]

IndexRecord(name, path) == [name |-> name, path |-> path, description |-> ""]

\* what workspace-index.js may hold before the run
IndexFiles ==
    { IndexAbsent,
      [type |-> "garbage", isArray |-> FALSE, items |-> <<>>],
      [type |-> "json", isArray |-> FALSE, items |-> <<>>],
      JSONstringify(<< IndexRecord("old", <<Dot, <<"old">>>>),
                       IndexRecord(NoName, <<Dot, <<"anon">>>>),
                       IndexRecord("pkg-a", NoPath) >>) }

\* the values of the modules flag handed to handleModuleFlag
RequestedModules ==
    { [defined |-> FALSE, names |-> <<>>],
      [defined |-> TRUE, names |-> <<>>],
      [defined |-> TRUE, names |-> <<"pkg-a", "nope">>],
      [defined |-> TRUE, names |-> <<"nope", "pkg-b", "pkg-b">>] }

NoSelection ==
    [status |-> "none", targetPackageDirs |-> <<>>, processingMode |-> "unknown",
     warnings |-> <<>>]

InitRegistry ==
    /\ fs \in RegistrySnapshots
    /\ options = [threshold |-> DefaultThreshold, includeAll |-> FALSE]
    /\ targetPath = repoRoot
    /\ pc = "discover"
    /\ stack = <<>>
    /\ output = <<>>
    /\ processedFiles = 0
    /\ skippedFiles = 0
    /\ io = NoIo
    /\ result = NoResult
    /\ results = <<>>
    /\ main = NoMain
    /\ dep = NoDep
    /\ \E debug \in BOOLEAN, indexFile \in IndexFiles :
          reg = [mode |-> "registry", debug |-> debug, indexFile |-> indexFile,
                 written |-> FALSE, found |-> <<>>, packages |-> <<>>, loaded |-> <<>>,
                 warnings |-> <<>>, requested |-> [defined |-> FALSE, names |-> <<>>],
                 selection |-> NoSelection]

registryFrame ==
    UNCHANGED <<fs, options, targetPath, stack, output, processedFiles,
                skippedFiles, io, result, results, main, dep>>

\* findWorkspacePackages(repoRoot) returns the map
findWorkspacePackages ==
    /\ pc = "discover"
    /\ globPatternsOf(fs).defined
    /\ \E packageJsonPaths \in Orderings(Glob(fs, globPatternsOf(fs).patterns)) :
          LET r == registerManifests(fs, packageJsonPaths, <<>>, <<>>, reg.debug)
          IN  reg' = [reg EXCEPT !.found = packageJsonPaths,
                                 !.packages = r.packages,
                                 !.warnings = r.warnings]
    /\ pc' = "discovered"
    /\ registryFrame

\* glob(undefined): findWorkspacePackages raises
findWorkspacePackagesRaises ==
    /\ pc = "discover"
    /\ ~globPatternsOf(fs).defined
    /\ pc' = "failed"
    /\ UNCHANGED reg
    /\ registryFrame

\* createWorkspaceIndex(allPackages, repoPath, debug): the file is written
\* when the map is not empty; a failing write is warned about
createWorkspaceIndex ==
    /\ pc = "discovered"
    /\ \E writeOk \in BOOLEAN :
          IF Len(reg.packages) > 0 THEN
              IF writeOk
              THEN reg' = [reg EXCEPT !.indexFile =
                                          JSONstringify(workspaceDataOf(reg.packages, repoRoot)),
                                      !.written = TRUE]
              ELSE reg' = [reg EXCEPT !.warnings =
                              Append(@, Warning("failed to write workspace-index.js",
                                                NoName, NoPath))]
          ELSE /\ writeOk
               /\ UNCHANGED reg
    /\ pc' = "indexed"
    /\ registryFrame

\* loadWorkspaceIndex(repoRoot, debug)
loadWorkspaceIndex ==
    /\ pc = "indexed"
    /\ reg' = [reg EXCEPT !.loaded = loadWorkspaceIndexOf(reg.indexFile)]
    /\ pc' = "loaded"
    /\ registryFrame

\* handleModuleFlag(allPackages, repoRoot, modulesFlag, debugFlag)
handleModuleFlag ==
    /\ pc = "loaded"
    /\ \E requested \in RequestedModules :
          LET r == handleModuleFlagOf(reg.packages, repoRoot, requested)
          IN  /\ reg' = [reg EXCEPT !.requested = requested, !.selection = r]
              /\ pc' = IF r.status = "raised" THEN "failed" ELSE "selected"
    /\ registryFrame

NextRegistry ==
    \/ findWorkspacePackages
    \/ findWorkspacePackagesRaises
    \/ createWorkspaceIndex
    \/ loadWorkspaceIndex
    \/ handleModuleFlag

SpecRegistry == InitRegistry /\ [][NextRegistry]_vars

-----------------------------------------------------------------------------
(* getDirectDependencies, findPackageEntryPointRelativePath *)

extensions ==
    { <<".", "js">>, <<".", "jsx">>, <<".", "ts">>, <<".", "tsx">>, <<".", "mjs">>,
      <<".", "cjs">> }

\* the regular files below a listing in the order grep -r meets them
RECURSIVE FileSeq(_, _)
FileSeq(entries, dir) ==
    IF entries = <<>> THEN <<>>
    ELSE LET e == Head(entries)
             q == JoinName(dir, e.name)
         IN  (IF e.kind = "file" THEN <<q>>
              ELSE IF e.kind = "dir" THEN FileSeq(e.entries, q)
              ELSE <<>>) \o FileSeq(Tail(entries), dir)

SelectSeq2(sq, Test(_)) ==
    LET F[i \in 0..Len(sq)] ==
            IF i = 0 THEN <<>>
            ELSE IF Test(sq[i]) THEN Append(F[i - 1], sq[i]) ELSE F[i - 1]
    IN  F[Len(sq)]

\* `${functionName}` in the command line
grepPatternOf(functionName) ==
    IF functionName = NoName THEN "undefined" ELSE functionName

\* grep -rw "<functionName>" "<fullPackageDir>": exit status 2 when the
\* directory does not exist or a file below it cannot be read, 1 when no
\* line matches, else 0 with the files that hold the word
grepWord(root, functionName, fullPackageDir) ==
    LET d == Lookup(root, fullPackageDir)
        files == FileSeq(d.entries, fullPackageDir)
        Holds(q) == LET f == Lookup(root, q)
                    IN  f.data.type = "source" /\ grepPatternOf(functionName) \in f.data.words
        hits == SelectSeq2(files, Holds)
    IN  IF d.kind # "dir" \/ ~d.readOk
           \/ \E i \in 1..Len(files) : ~Lookup(root, files[i]).readOk
        THEN [code |-> 2, files |-> <<>>]
        ELSE IF hits = <<>> THEN [code |-> 1, files |-> <<>>]
        ELSE [code |-> 0, files |-> hits]

\* filePathOptions.add: a Set keeps the first insertion of a value
SetAdd(sq, x) == IF \E i \in 1..Len(sq) : sq[i] = x THEN sq ELSE Append(sq, x)

\* what findPackageEntryPointRelativePath puts in filePathOptions for a file
\* that exports the symbol
optionPathOf(root, filePath) == Relative(root, filePath)

\* the loop over the lines of grep's output
RECURSIVE examineCandidates(_, _, _, _)
examineCandidates(root, candidates, functionName, filePathOptions) ==
    IF candidates = <<>> THEN [status |-> "list", paths |-> filePathOptions]
    ELSE LET filePath == Head(candidates)
         IN  IF ~\E ext \in extensions : EndsWith(Basename(filePath), ext)
             THEN examineCandidates(root, Tail(candidates), functionName, filePathOptions)
             ELSE LET fileExports == getExportsFromFile(root, filePath)
                  IN  IF fileExports.status = "raised"
                      THEN [status |-> "raised", paths |-> <<>>]
                      ELSE IF functionName \in fileExports.exports
                      THEN examineCandidates(root, Tail(candidates), functionName,
                               SetAdd(filePathOptions, optionPathOf(repoRoot, filePath)))
                      ELSE examineCandidates(root, Tail(candidates), functionName,
                               filePathOptions)

\* findPackageEntryPointRelativePath(packageName, functionName,
\* workspaceIndex, repoRoot): a list of paths, null, or an error raised;
\* `searched` tells whether grep was run
findPackageEntryPointRelativePath(root, packageName, functionName, workspaceIndex) ==
    IF ~MapHas(workspaceIndex, packageName) THEN
        \* packageInfo.path of undefined: TypeError
        [status |-> "raised", paths |-> <<>>, searched |-> FALSE]
    ELSE LET fullPackageDir == PathJoin(repoRoot, MapGet(workspaceIndex, packageName).path)
             g == grepWord(root, functionName, fullPackageDir)
         IN  IF g.code = 1 THEN [status |-> "null", paths |-> <<>>, searched |-> TRUE]
             ELSE IF g.code # 0 THEN [status |-> "raised", paths |-> <<>>, searched |-> TRUE]
             ELSE LET r == examineCandidates(root, g.files, functionName, <<>>)
                  IN  [status |-> r.status, paths |-> r.paths, searched |-> TRUE]

\* the list started empty
initialDependencyPaths_empty(filePath) == <<>>

\* const directDependencyPaths = [filePath]
initialDependencyPaths(filePath) == <<filePath>>

-----------------------------------------------------------------------------
(* The resolution run: one requested file, its imports, its dependencies *)

\* export { helper } from "./index.js": a second file that exports helper
srcAltJs ==
    TextFile(<<"alt", ".", "js">>,
        SourceData(TRUE, {"export", "helper", "from", "index", "js"},
            << Node("ExportNamedDeclaration", "./index.js",
                    <<Binding("helper", "helper")>>, <<>>, NoName) >>))

\* a text that mentions helper and does not parse
srcBrokenJs ==
    TextFile(<<"broken", ".", "js">>, SourceData(FALSE, {"helper", "function"}, <<>>))

\* a text that mentions helper and is no source file
docReadme ==
    TextFile(<<"README", ".", "md">>, SourceData(FALSE, {"helper", "use"}, <<>>))

\* import { deep } from "pkg-b"; export function helper() {}
srcIndexHopJs ==
    TextFile(nmIndexJs,
        SourceData(TRUE, {"import", "deep", "from", "pkg", "b", "export", "function", "helper"},
            << Node("ImportDeclaration", "pkg-b", <<Binding("deep", "deep")>>, <<>>, NoName),
               Node("ExportNamedDeclaration", NoSource, <<>>, <<"helper">>, NoName) >>))

\* export function deep() {}
srcDeepJs ==
    TextFile(<<"deep", ".", "js">>,
        SourceData(TRUE, {"export", "function", "deep"},
            << Node("ExportNamedDeclaration", NoSource, <<>>, <<"deep">>, NoName) >>))

SourcesA ==
    { <<srcIndexJs>>,
      <<srcIndexHopJs>>,
      <<srcIndexJs, srcUtilJs>>,
      <<srcUtilJs, docReadme, srcIndexJs>>,
      <<srcIndexJs, srcAltJs>>,
      <<srcIndexJs, srcBrokenJs>> }

MainJs(body, words) == TextFile(nmMainJs, SourceData(TRUE, words, body))

importHelper ==
    Node("ImportDeclaration", "pkg-a", <<Binding("helper", "helper")>>, <<>>, NoName)

\* the texts of <repo>/pkg-b/main.js
SourcesB ==
    { << MainJs(<<>>, {"console", "log"}) >>,
      << MainJs(<<importHelper>>, {"import", "helper", "from", "pkg", "a"}), srcDeepJs >>,
      << MainJs(<<importHelper>>, {"import", "helper", "from", "pkg", "a"}) >>,
      << MainJs(<<importHelper, Node("ImportDeclaration", "pkg-a", <<>>, <<>>, NoName)>>,
                {"import", "helper", "from", "pkg", "a"}) >>,
      << MainJs(<<Node("ImportDeclaration", "pkg-a",
                       <<Binding("absent", "absent")>>, <<>>, NoName), importHelper>>,
                {"import", "absent", "helper", "from", "pkg", "a"}) >>,
      << MainJs(<<importHelper,
                  Node("ImportDeclaration", "fs", <<Binding("fs", "default")>>, <<>>, NoName)>>,
                {"import", "helper", "fs", "from", "pkg", "a"}) >>,
      << TextFile(nmMainJs, SourceData(FALSE, {"import"}, <<>>)) >> }

ResolveSnapshots ==
    { Workspace(<< TextFile(nmWorkspaceYaml, YamlData(TRUE, << <<Wildcard>> >>)) >>, <<>>,
                ManifestFile(ManifestData("pkg-a", "a")), a, b) :
        a \in SourcesA, b \in SourcesB }

\* the registries a resolution is given: the map read back from the index
\* file, the discovered map, the empty map of a missing index file
IndexesOf(root) ==
    { <<>> }
    \cup UNION { LET packages == registerManifests(root, o, <<>>, <<>>, FALSE).packages
                 IN  { packages,
                       loadWorkspaceIndexOf(JSONstringify(workspaceDataOf(packages, repoRoot))) }
                 : o \in Orderings(Glob(root, globPatternsOf(root).patterns)) }

NoImports == [defined |-> FALSE, items |-> <<>>]

InitResolve ==
    /\ fs \in ResolveSnapshots
    /\ options = [threshold |-> DefaultThreshold, includeAll |-> FALSE]
    /\ targetPath = repoRoot
    /\ pc = "analyze"
    /\ stack = <<>>
    /\ output = <<>>
    /\ processedFiles = 0
    /\ skippedFiles = 0
    /\ io = NoIo
    /\ result = NoResult
    /\ results = <<>>
    /\ main = NoMain
    /\ reg = NoReg
    /\ \E workspaceIndex \in IndexesOf(fs) :
          dep = [mode |-> "resolve", filePath |-> JoinName(dirPkgB, nmMainJs),
                 workspaceIndex |-> workspaceIndex, imports |-> NoImports, i |-> 1,
                 directDependencyPaths |-> <<>>, searches |-> <<>>, returned |-> <<>>]

resolveFrame ==
    UNCHANGED <<fs, options, targetPath, stack, output, processedFiles,
                skippedFiles, io, result, results, main, reg>>

\* the caller analyses the requested file and passes its imports
analyzeImports ==
    /\ pc = "analyze"
    /\ LET r == getImportsFromFile(fs, dep.filePath)
       IN  IF r.status = "raised"
           THEN pc' = "failed" /\ UNCHANGED dep
           ELSE /\ pc' = "enter"
                /\ dep' = [dep EXCEPT !.imports = [defined |-> TRUE, items |-> r.imports]]
    /\ resolveFrame

\* handleFileFlag([filePath], repoRoot, debug, false): it calls
\* getDirectDependencies with four arguments, `imports` is undefined
handleFileFlagResolve ==
    /\ pc = "analyze"
    /\ pc' = "enter"
    /\ UNCHANGED dep
    /\ resolveFrame

\* handleFileFlag([filePath], repoRoot, debug, true): the requested files
\* are the target paths
handleFileFlagExtract ==
    /\ pc = "analyze"
    /\ pc' = "resolved"
    /\ dep' = [dep EXCEPT !.returned = <<dep.filePath>>]
    /\ resolveFrame

\* entry of getDirectDependencies; `for (... of imports)` raises a TypeError
\* on an undefined `imports`, which the catch logs and rethrows
getDirectDependenciesEntry ==
    /\ pc = "enter"
    /\ dep' = [dep EXCEPT !.directDependencyPaths = initialDependencyPaths(dep.filePath),
                          !.i = 1]
    /\ pc' = IF dep.imports.defined THEN "imports" ELSE "failed"
    /\ resolveFrame

\* one iteration of the loop over imports
resolveImport ==
    /\ pc = "imports"
    /\ dep.i <= Len(dep.imports.items)
    /\ LET importItem == dep.imports.items[dep.i]
           r == findPackageEntryPointRelativePath(fs, importItem.package,
                    importItem.function, dep.workspaceIndex)
           searches == IF r.searched
                       THEN Append(dep.searches, importItem)
                       ELSE dep.searches
       IN  IF r.status = "raised"
           THEN /\ pc' = "failed"
                /\ dep' = [dep EXCEPT !.searches = searches]
           ELSE /\ pc' = "imports"
                /\ dep' = [dep EXCEPT !.searches = searches,
                                      !.i = @ + 1,
                                      !.directDependencyPaths =
                                          IF r.status = "list" THEN @ \o r.paths ELSE @]
    /\ resolveFrame

\* the files that the import references of the file at filePath resolve to
RECURSIVE resolvedImportsOf(_, _, _)
resolvedImportsOf(root, items, workspaceIndex) ==
    IF items = <<>> THEN <<>>
    ELSE LET r == findPackageEntryPointRelativePath(root, Head(items).package,
                      Head(items).function, workspaceIndex)
         IN  (IF r.status = "list" THEN r.paths ELSE <<>>)
             \o resolvedImportsOf(root, Tail(items), workspaceIndex)

\* the dependencies of the dependencies at positions k.. of the list
RECURSIVE secondHop(_, _, _, _)
secondHop(root, paths, k, workspaceIndex) ==
    IF k > Len(paths) THEN <<>>
    ELSE LET r == getImportsFromFile(root, PathJoin(repoRoot, paths[k]))
         IN  (IF r.status = "returned"
              THEN resolvedImportsOf(root, r.imports, workspaceIndex) ELSE <<>>)
             \o secondHop(root, paths, k + 1, workspaceIndex)

\* the resolution goes on into the imports of the files it resolved
getDirectDependenciesReturn_recurses ==
    /\ pc = "imports"
    /\ dep.i > Len(dep.imports.items)
    /\ dep' = [dep EXCEPT !.returned =
                  dep.directDependencyPaths
                  \o secondHop(fs, dep.directDependencyPaths, 2, dep.workspaceIndex)]
    /\ pc' = "resolved"
    /\ resolveFrame

\* return [...directDependencyPaths]
getDirectDependenciesReturn ==
    /\ pc = "imports"
    /\ dep.i > Len(dep.imports.items)
    /\ dep' = [dep EXCEPT !.returned = dep.directDependencyPaths]
    /\ pc' = "resolved"
    /\ resolveFrame

NextResolve ==
    \/ analyzeImports
    \/ handleFileFlagResolve
    \/ handleFileFlagExtract
    \/ getDirectDependenciesEntry
    \/ resolveImport
    \/ getDirectDependenciesReturn

SpecResolve == InitResolve /\ [][NextResolve]_vars

-----------------------------------------------------------------------------
(* main: the flags, the selection, the loop over the targets, the output file *)

\* cli.flags.output: undefined, or the string given
NoOutputFlag == [given |-> FALSE, path |-> <<>>]

OutputFlag(path) == [given |-> TRUE, path |-> path]

nmOutTxt == <<"out", ".", "txt">>

OutputFlags == { NoOutputFlag, OutputFlag(<<>>), OutputFlag(nmOutTxt) }

\* outputFlag ?? `${path.basename(repoRoot)}.txt`
outputPathOf(outputFlag) ==
    IF outputFlag.given THEN outputFlag.path ELSE Basename(repoRoot) \o <<".", "txt">>

\* the output flag never honoured
outputRequested_never(outputFlag) == FALSE

\* if (cli.flags.output): a string that is not empty
outputRequested(outputFlag) == outputFlag.given /\ outputFlag.path # <<>>

\* the branch for a run without content never taken
noContentBranch_never(combinedContent, includeAllFlag) == FALSE

\* !combinedContent && !cli.flags.includeAll
noContentBranch(combinedContent, includeAllFlag) ==
    combinedContent = <<>> /\ ~includeAllFlag

\* [...new Set(targetPaths)]
unique(sq) ==
    LET F[i \in 0..Len(sq)] == IF i = 0 THEN <<>> ELSE SetAdd(F[i - 1], sq[i])
    IN  F[Len(sq)]

\* validateIsFilesOrDir(cli.input, filesFlag): the paths of the files flag, or
\* the input path; an error when one of them is neither a file nor a directory
validateIsFilesOrDir(root, filesFlag) ==
    LET resolvedPaths == IF filesFlag.defined /\ filesFlag.paths # <<>>
                         THEN filesFlag.paths ELSE <<repoRoot>>
    IN  IF \A i \in 1..Len(resolvedPaths) :
               LET t == Lookup(root, resolvedPaths[i])
               IN  t.statOk /\ t.kind \in {"file", "dir"}
        THEN [status |-> "returned", resolvedPaths |-> resolvedPaths]
        ELSE [status |-> "raised", resolvedPaths |-> <<>>]

\* handleFileFlag(requestedFiles, repoRoot, debug, onlyExtractFile): the map
\* it loads does not change its outcome; without onlyExtractFile each
\* requested file goes through getDirectDependencies with no imports, which
\* raises
handleFileFlagOf(requestedFiles, onlyExtractFile) ==
    IF onlyExtractFile
    THEN [status |-> "returned", targetPaths |-> requestedFiles, processingMode |-> "file"]
    ELSE IF requestedFiles = <<>>
    THEN [status |-> "returned", targetPaths |-> <<>>,
          processingMode |-> "file_with_direct_dependencies"]
    ELSE [status |-> "raised", targetPaths |-> <<>>, processingMode |-> "unknown"]

emptyDir == Dir(<<"docs">>, TRUE, <<>>)

\* a directory that readdir cannot list
dirUnlistable == Dir(<<"priv">>, FALSE, <<fileText>>)

\* a directory with a file before and a file after a subdirectory
dirNested ==
    Dir(<<"src">>, TRUE, <<fileEdge, Dir(<<"lib">>, TRUE, <<fileText>>), fileText>>)

\* the snapshots main runs over: the empty repository, one entry, a few
\* pairs, two workspaces
MainSnapshots ==
    { <<>>, <<dirNested, fileText>> }
    \cup { <<e>> : e \in TopEntries }
    \cup { <<emptyDir, e>> : e \in Dirs }
    \cup { <<fileText, fileBin>>, <<fileDot, fileText>>, <<emptyDir, Special(<<"sock">>)>> }
    \cup { Workspace(<< TextFile(nmWorkspaceYaml, y) >>, <<>>,
                     ManifestFile(ManifestData("pkg-a", "a")), <<srcIndexJs>>, <<srcMainJs>>) :
             y \in { YamlData(TRUE, << <<Wildcard>> >>), YamlData(FALSE, <<>>) } }
    \cup { Workspace(<<>>, <<>>, ManifestFile(ManifestData("pkg-a", "a")),
                     <<srcIndexJs, dirUnlistable>>, <<srcMainJs>>) }

\* cli.flags.modules as main sees it
ModulesFlags ==
    RequestedModules
    \cup { [defined |-> TRUE, names |-> <<"pkg-b", "pkg-a", "dep">>],
           [defined |-> TRUE, names |-> <<"pkg-a", "pkg-b">>] }

\* cli.flags.files as main sees it
FilesFlags(root) ==
    { [defined |-> FALSE, paths |-> <<>>], [defined |-> TRUE, paths |-> <<>>] }
    \cup { [defined |-> TRUE, paths |-> <<JoinName(repoRoot, root[i].name)>>] :
             i \in 1..Len(root) }
    \cup { [defined |-> TRUE, paths |-> <<JoinName(repoRoot, <<"absent">>)>>] }
    \cup (IF Len(root) >= 2
          THEN { [defined |-> TRUE,
                  paths |-> <<JoinName(repoRoot, root[1].name),
                              JoinName(repoRoot, root[2].name)>>] }
          ELSE {})
    \cup (IF Len(root) >= 2
          THEN { [defined |-> TRUE,
                  paths |-> <<JoinName(repoRoot, root[2].name),
                              JoinName(repoRoot, root[1].name),
                              JoinName(repoRoot, root[2].name)>>] }
          ELSE {})

\* cli.input[0]: not given, a path that does not exist, a path that is
\* neither a file nor a directory, or a directory
RootInputs == {"missing", "absent", "special", "directory"}

\* the git command taken to succeed on every input
getRepositoryRoot_returns(input, isRepository) == [status |-> "returned"]

\* getRepositoryRoot(sourcePath): `git -C "<sourcePath>" rev-parse
\* --show-toplevel` fails unless sourcePath is a directory inside a repository
getRepositoryRoot(input, isRepository) ==
    IF input = "directory" /\ isRepository
    THEN [status |-> "returned"]
    ELSE [status |-> "raised"]

\* validateInput(input) with no fileName: an error is raised for a missing
\* input, by the first git command for a path that is no directory inside a
\* repository, and by the checks after fs.stat
validateInput(input, isRepository) ==
    IF input = "missing" THEN [status |-> "raised", type |-> "none"]
    ELSE IF ~(input = "directory" /\ isRepository)
    THEN [status |-> "raised", type |-> "none"]
    ELSE [status |-> "returned", type |-> "directory"]

InitMain ==
    /\ fs \in MainSnapshots
    /\ options \in [threshold : {DefaultThreshold}, includeAll : BOOLEAN]
    /\ targetPath = repoRoot
    /\ pc = "idle"
    /\ stack = <<>>
    /\ output = <<>>
    /\ processedFiles = 0
    /\ skippedFiles = 0
    /\ io = NoIo
    /\ result = NoResult
    /\ results = <<>>
    /\ reg = NoReg
    /\ dep = NoDep
    /\ \E outputFlag \in OutputFlags, filesFlag \in FilesFlags(fs),
          modulesFlag \in ModulesFlags, onlyExtractFile \in BOOLEAN,
          isRepository \in BOOLEAN, input \in RootInputs, nodeEnvTest \in BOOLEAN :
          /\ isRepository => input = "directory"
          /\ filesFlag.defined => modulesFlag = [defined |-> TRUE, names |-> <<>>]
          /\ ~filesFlag.defined => ~onlyExtractFile
          /\ main = [mode |-> "main", at |-> "start", isRepository |-> isRepository,
                     input |-> input, nodeEnvTest |-> nodeEnvTest, exitStatus |-> "none",
                     outputFlag |-> outputFlag, filesFlag |-> filesFlag,
                     modulesFlag |-> modulesFlag, onlyExtractFile |-> onlyExtractFile,
                     processingMode |-> "unknown", targetPaths |-> <<>>, k |-> 1,
                     visited |-> <<>>, combinedContent |-> <<>>, totalProcessedFiles |-> 0,
                     totalSkippedFiles |-> 0, written |-> <<>>]

mainFrame ==
    UNCHANGED <<fs, options, stack, output, processedFiles, skippedFiles, io,
                result, results, reg, dep>>

\* main up to `targetPaths = [...new Set(targetPaths)]`: getRepositoryRoot,
\* findWorkspacePackages, validateIsFilesOrDir, handleFileFlag or
\* handleModuleFlag; an error of any of them ends main in its catch
mainSelect ==
    /\ main.mode = "main"
    /\ main.at = "start"
    /\ \E packageJsonPaths \in Orderings(Glob(fs, globPatternsOf(fs).patterns)) :
          LET allPackages == registerManifests(fs, packageJsonPaths, <<>>, <<>>, FALSE).packages
              v == validateIsFilesOrDir(fs, main.filesFlag)
              sel == IF main.filesFlag.defined
                     THEN handleFileFlagOf(v.resolvedPaths, main.onlyExtractFile)
                     ELSE LET r == handleModuleFlagOf(allPackages, repoRoot, main.modulesFlag)
                          IN  [status |-> r.status, targetPaths |-> r.targetPackageDirs,
                               processingMode |-> r.processingMode]
          IN  IF \/ getRepositoryRoot(main.input, main.isRepository).status = "raised"
                 \/ ~globPatternsOf(fs).defined
                 \/ v.status = "raised"
                 \/ sel.status = "raised"
              THEN main' = [main EXCEPT !.at = "failed"]
              ELSE main' = [main EXCEPT !.at = "loop",
                                        !.targetPaths = unique(sel.targetPaths),
                                        !.processingMode = sel.processingMode]
    /\ UNCHANGED <<pc, targetPath>>
    /\ mainFrame

\* the loop calls processFiles(targetPath, options) on the next target
mainProcessTarget ==
    /\ main.mode = "main"
    /\ main.at = "loop"
    /\ pc = "idle"
    /\ main.k <= Len(main.targetPaths)
    /\ targetPath' = main.targetPaths[main.k]
    /\ pc' = "call"
    /\ main' = [main EXCEPT !.visited = Append(@, main.targetPaths[main.k])]
    /\ mainFrame

\* no try around the call: the error ends main in its outer catch
afterProcessError_aborts(m) == [m EXCEPT !.at = "failed"]

\* catch (processError): the error is logged and the loop goes on
afterProcessError(m) == [m EXCEPT !.k = @ + 1]

\* the loop puts what the call returned ahead of what it has
mainCollect_prepends ==
    /\ main.mode = "main"
    /\ pc \in {"returned", "raised"}
    /\ main' = IF result.status = "returned"
               THEN [main EXCEPT !.combinedContent = result.output \o @,
                                 !.totalProcessedFiles = @ + result.processedFiles,
                                 !.totalSkippedFiles = @ + result.skippedFiles,
                                 !.k = @ + 1]
               ELSE afterProcessError(main)
    /\ pc' = "idle"
    /\ UNCHANGED targetPath
    /\ mainFrame

\* the loop adds what the call returned; an error of the call is logged
mainCollect ==
    /\ main.mode = "main"
    /\ pc \in {"returned", "raised"}
    /\ main' = IF result.status = "returned"
               THEN [main EXCEPT !.combinedContent = @ \o result.output,
                                 !.totalProcessedFiles = @ + result.processedFiles,
                                 !.totalSkippedFiles = @ + result.skippedFiles,
                                 !.k = @ + 1]
               ELSE afterProcessError(main)
    /\ pc' = "idle"
    /\ UNCHANGED targetPath
    /\ mainFrame

\* what main writes after the loop, if anything: [write, content]
mainDecision(targetPaths, combinedContent, includeAllFlag, outputFlag) ==
    IF Len(targetPaths) > 0 THEN
        IF noContentBranch(combinedContent, includeAllFlag)
        THEN [write |-> outputRequested(outputFlag), content |-> <<>>]
        ELSE [write |-> TRUE, content |-> combinedContent]
    ELSE [write |-> outputRequested(outputFlag), content |-> <<>>]

\* after the loop: writeOutput or not; a failing fs.writeFile is rethrown by
\* writeOutput and ends main in its catch
mainWrite ==
    /\ main.mode = "main"
    /\ main.at = "loop"
    /\ pc = "idle"
    /\ main.k > Len(main.targetPaths)
    /\ LET d == mainDecision(main.targetPaths, main.combinedContent, options.includeAll,
                             main.outputFlag)
           outputPath == outputPathOf(main.outputFlag)
       IN  IF ~d.write THEN main' = [main EXCEPT !.at = "done"]
           ELSE \E writeOk \in BOOLEAN :
                   IF writeOk /\ outputPath # <<>>
                   THEN main' = [main EXCEPT !.at = "done",
                                             !.written = Append(@, [path |-> outputPath,
                                                                    content |-> d.content])]
                   ELSE main' = [main EXCEPT !.at = "failed"]
    /\ UNCHANGED <<pc, targetPath>>
    /\ mainFrame

\* catch (error): under NODE_ENV=test the error is rethrown to the caller of
\* main, otherwise it is printed with a hint and the process exits with 1
mainCatch ==
    /\ main.mode = "main"
    /\ main.at = "failed"
    /\ main' = IF main.nodeEnvTest
               THEN [main EXCEPT !.at = "rethrown"]
               ELSE [main EXCEPT !.at = "exited", !.exitStatus = 1]
    /\ UNCHANGED <<pc, targetPath>>
    /\ mainFrame

\* the steps of main and of the calls it makes; validateIsFilesOrDir and the
\* registry hand over targets that exist, so the stat of a target succeeds
NextMain ==
    \/ mainSelect
    \/ mainProcessTarget
    \/ processFilesEntry
    \/ TargetIsFile
    \/ TargetIsDirectory
    \/ ReaddirFails
    \/ PruneDirectory
    \/ DescendDirectory
    \/ SkipNonFile
    \/ StatFails
    \/ VisitFile
    \/ LeaveDirectory
    \/ processFilesReturn
    \/ mainCollect
    \/ mainWrite
    \/ mainCatch

SpecMain == InitMain /\ [][NextMain]_vars

-----------------------------------------------------------------------------
(* Properties of the registry *)

\* the manifest found at reg.found[i] declares a name
NamedManifest(i) ==
    LET f == Lookup(fs, reg.found[i])
    IN  f.readOk /\ f.data.type = "json" /\ f.data.name # NoName

ManifestName(i) == Lookup(fs, reg.found[i]).data.name

\* the directory that holds the manifest found at reg.found[i]
ManifestDir(i) == SubSeq(reg.found[i], 1, Len(reg.found[i]) - 1)

\* no manifest found after reg.found[i] declares the same name
LastOfItsName(i) ==
    \A j \in (i + 1)..Len(reg.found) :
        ~(NamedManifest(j) /\ ManifestName(j) = ManifestName(i))

\* loadWorkspaceIndex has returned in a run whose createWorkspaceIndex wrote the file
ReadBack ==
    /\ reg.mode = "registry"
    /\ reg.written
    /\ pc \in {"loaded", "selected", "failed"}

\* the round trip for the manifest found at reg.found[i]
RoundTrip(i) ==
    /\ MapHas(reg.packages, ManifestName(i))
    /\ MapGet(reg.packages, ManifestName(i)).path = ManifestDir(i)
    /\ ReadBack =>
          /\ MapHas(reg.loaded, ManifestName(i))
          /\ PathJoin(repoRoot, MapGet(reg.loaded, ManifestName(i)).path) = ManifestDir(i)

\* C4 as stated: every manifest with a name P found at D makes P resolve to D,
\* in the discovered map and in the map read back from the written index
CE_C4_EveryFoundManifestResolves ==
    (reg.mode = "registry" /\ pc # "discover") =>
        \A i \in 1..Len(reg.found) : NamedManifest(i) => RoundTrip(i)

\* C4 amended: a manifest with a name P found at D, after which no manifest
\* with the same name is found, makes P resolve to D in the discovered map
\* and, through path.join with the repository root, in the map read back
\* from the index that createWorkspaceIndex wrote
Thm_C4_RegistryRoundTrip ==
    (reg.mode = "registry" /\ pc # "discover") =>
        \A i \in 1..Len(reg.found) :
            (NamedManifest(i) /\ LastOfItsName(i)) => RoundTrip(i)

\* the index was written and read back for a registry that holds the package
\* of the repository root and the package of a subdirectory
Wit_C4 ==
    /\ ReadBack
    /\ pc = "loaded"
    /\ MapHas(reg.packages, "root")
    /\ MapHas(reg.packages, "pkg-a")
    /\ MapHas(reg.loaded, "pkg-a")

\* pnpm-workspace.yaml exists with a `packages` list that matches no manifest
ManifestMatchesNothing ==
    LET y == Lookup(fs, JoinName(repoRoot, nmWorkspaceYaml))
    IN  /\ reg.mode = "registry"
        /\ y.kind = "file" /\ y.readOk /\ y.data.type = "yaml" /\ y.data.isArray
        /\ \A f \in FilePaths(fs, repoRoot) :
              \A i \in 1..Len(y.data.patterns) :
                  ~GlobMatch(PathJoin(repoRoot, Append(y.data.patterns[i], nmPackageJson)), f)

\* handleModuleFlag has been called with a non-empty list of names
SelectedSomeNames ==
    /\ reg.selection.status # "none"
    /\ reg.requested.defined
    /\ Len(reg.requested.names) > 0

CountWarnings(ws, msg) == Cardinality({ i \in 1..Len(ws) : ws[i].msg = msg })

\* C9 as stated: one "not found" warning for each requested name
CE_C9_OneWarningPerName ==
    (ManifestMatchesNothing /\ SelectedSomeNames) =>
        /\ reg.selection.targetPackageDirs = <<>>
        /\ CountWarnings(reg.selection.warnings, "module not found in workspace")
              = Len(reg.requested.names)

\* C9 amended: discovery returns an empty map without raising, and
\* handleModuleFlag with that map and a non-empty list of names logs the one
\* warning that no packages were found, no warning per name, and returns an
\* empty list of target directories
Thm_C9_EmptyRegistrySelectsNothing ==
    ManifestMatchesNothing =>
        /\ pc # "discover" => (reg.packages = <<>> /\ reg.found = <<>>)
        /\ pc = "failed" => reg.selection.status = "raised"
        /\ SelectedSomeNames =>
              /\ reg.selection.status = "returned"
              /\ reg.selection.targetPackageDirs = <<>>
              /\ reg.selection.warnings = << Warning("no packages found", NoName, NoPath) >>

\* names were requested from a registry that a matching-nothing manifest left empty
Wit_C9 ==
    /\ ManifestMatchesNothing
    /\ SelectedSomeNames
    /\ pc = "selected"
    /\ Len(reg.requested.names) = 3

\* pnpm-workspace.yaml is absent, cannot be read or parsed, or parses
\* without a `packages` array
NoUsableManifest ==
    LET y == Lookup(fs, JoinName(repoRoot, nmWorkspaceYaml))
    IN  ~(y.kind = "file" /\ y.readOk /\ y.data.type = "yaml" /\ y.data.isArray)

ManifestWithoutPatterns ==
    LET y == Lookup(fs, JoinName(repoRoot, nmWorkspaceYaml))
    IN  y.kind = "file" /\ y.readOk /\ y.data.type = "yaml" /\ ~y.data.isArray

\* findWorkspacePackages has raised
DiscoveryRaised == pc = "failed" /\ reg.selection.status = "none"

DiscoveryReturned == pc \in {"discovered", "indexed", "loaded", "selected"}

\* every package manifest of the repository
AllManifests == Glob(fs, << PathJoin(repoRoot, <<Globstar, nmPackageJson>>) >>)

\* C13 as the claim states it: with pnpm-workspace.yaml absent, unparsable or
\* without a `packages` array, findWorkspacePackages does not raise and
\* returns the map of a scan of the whole repository for package manifests
CE_C13_DiscoveryFallsBackAndReturns ==
    NoUsableManifest =>
        /\ ~DiscoveryRaised
        /\ DiscoveryReturned
              => { reg.found[i] : i \in 1..Len(reg.found) } = AllManifests

\* the same for an absent or unparsable pnpm-workspace.yaml only
FallbackWhenAbsentOrUnparsable ==
    (NoUsableManifest /\ ~ManifestWithoutPatterns) =>
        /\ ~DiscoveryRaised
        /\ DiscoveryReturned
              => { reg.found[i] : i \in 1..Len(reg.found) } = AllManifests

\* the index file holds a JSON list, the one shape the load can walk
IndexIsList == reg.indexFile.type = "json" /\ reg.indexFile.isArray

\* the record at position i of the index file has a name and a path
UsableRecord(i) ==
    /\ reg.indexFile.items[i].name # NoName
    /\ reg.indexFile.items[i].path # NoPath

\* the last usable record of the index file that carries the name
LastUsable(name) ==
    CHOOSE i \in 1..Len(reg.indexFile.items) :
        /\ UsableRecord(i) /\ reg.indexFile.items[i].name = name
        /\ \A j \in (i + 1)..Len(reg.indexFile.items) :
              ~(UsableRecord(j) /\ reg.indexFile.items[j].name = name)

\* the map that loading must give for the index file of this state
LoadedAsExpected(loaded) ==
    IF ~IndexIsList THEN loaded = <<>>
    ELSE /\ MapKeys(loaded) =
              { reg.indexFile.items[i].name :
                  i \in { j \in 1..Len(reg.indexFile.items) : UsableRecord(j) } }
         /\ \A k \in MapKeys(loaded) :
              MapGet(loaded, k).path = reg.indexFile.items[LastUsable(k)].path

\* C14: loadWorkspaceIndex never raises: from a missing file, a text that is
\* no JSON or a JSON value that is no list it returns an empty map, and from
\* a list it returns the records that have a name and a path, passing over
\* the others; in every case the run goes on with the returned map
Thm_C14_LoadNeverRaises ==
    [][(reg.mode = "registry" /\ pc = "indexed")
          => /\ pc' = "loaded"
             /\ reg'.indexFile = reg.indexFile
             /\ LoadedAsExpected(reg'.loaded)]_vars

\* a list with a usable record, a record without a name and a record without
\* a path was loaded: the map holds the usable record alone
Wit_C14 ==
    /\ reg.mode = "registry" /\ pc = "loaded"
    /\ IndexIsList
    /\ \E i \in 1..Len(reg.indexFile.items) : reg.indexFile.items[i].name = NoName
    /\ \E i \in 1..Len(reg.indexFile.items) : reg.indexFile.items[i].path = NoPath
    /\ MapKeys(reg.loaded) = {"old"}

\* an index file that is no JSON was loaded into an empty map
Wit_C14_Garbage ==
    /\ reg.mode = "registry" /\ pc = "loaded"
    /\ reg.indexFile.type = "garbage"
    /\ reg.loaded = <<>>

\* two manifests that were found declare the same name
NameCollision ==
    \E i, j \in 1..Len(reg.found) :
        /\ i < j
        /\ NamedManifest(i) /\ NamedManifest(j)
        /\ ManifestName(i) = ManifestName(j)

\* findWorkspacePackages has returned its map
Discovered == reg.mode = "registry" /\ pc # "discover" /\ ~DiscoveryRaised

\* no name is the key of two entries of the map, and the entry of a name
\* is the directory of the manifest found last with that name
LastDiscoveredWins ==
    Discovered =>
        /\ \A i, j \in 1..Len(reg.packages) :
              reg.packages[i].key = reg.packages[j].key => i = j
        /\ \A i \in 1..Len(reg.found) :
              (NamedManifest(i) /\ LastOfItsName(i))
                  => MapGet(reg.packages, ManifestName(i)).path = ManifestDir(i)

\* C24 as stated: each name maps to one directory, that of the manifest
\* discovered last, and a collision of two manifests on one name leaves a
\* warning
CE_C24_CollisionKeepsLastAndWarns ==
    /\ LastDiscoveredWins
    /\ (Discovered /\ NameCollision)
          => \E w \in 1..Len(reg.warnings) :
                reg.warnings[w].msg = "duplicate package name"

\* two manifests with one name were found and the map holds one entry
CollisionDiscovered ==
    /\ Discovered /\ NameCollision
    /\ Len(reg.packages) = 1
    /\ reg.warnings = <<>>

\* the fallback scan was taken: pnpm-workspace.yaml is absent or unparsable
FallbackScan == NoUsableManifest /\ ~ManifestWithoutPatterns

\* the directory lies in or below node_modules or .git
InCacheOrVcs(dir) ==
    \E k \in 1..Len(dir) : dir[k] \in { <<"node_modules">>, <<".", "git">> }

\* C27 as stated: after the fallback scan no package of the registry has
\* its directory in or below node_modules or .git
CE_C27_FallbackSkipsDependencyCache ==
    (reg.mode = "registry" /\ DiscoveryReturned /\ FallbackScan) =>
        \A i \in 1..Len(reg.packages) : ~InCacheOrVcs(reg.packages[i].value.path)

\* the fallback scan has registered the package of node_modules/dep
DependencyRegistered ==
    /\ reg.mode = "registry" /\ DiscoveryReturned /\ FallbackScan
    /\ MapHas(reg.packages, "dep")
    /\ InCacheOrVcs(MapGet(reg.packages, "dep").path)

\* handleModuleFlag has been called
Selected == reg.mode = "registry" /\ reg.selection.status # "none"

\* the positions of the requested names that the registry holds
PresentAt == { i \in 1..Len(reg.requested.names) : MapHas(reg.packages, reg.requested.names[i]) }

\* the k-th of the positions of PresentAt
KthPresent(k) ==
    CHOOSE i \in PresentAt : Cardinality({ j \in PresentAt : j <= i }) = k

\* one directory per requested name that the registry holds, in request order
DirsInRequestOrder ==
    /\ Len(reg.selection.targetPackageDirs) = Cardinality(PresentAt)
    /\ \A k \in 1..Cardinality(PresentAt) :
          reg.selection.targetPackageDirs[k]
              = MapGet(reg.packages, reg.requested.names[KthPresent(k)]).path

\* one "not found" warning per requested name that the registry lacks
OneWarningPerAbsentName ==
    CountWarnings(reg.selection.warnings, "module not found in workspace")
        = Len(reg.requested.names) - Cardinality(PresentAt)

\* the outcome for an empty list of names
RepoMode ==
    /\ reg.selection.status = "returned"
    /\ reg.selection.targetPackageDirs = <<repoRoot>>
    /\ reg.selection.processingMode = "repo"

\* C29 as stated: handleModuleFlag never raises, whatever the modules flag
\* is; for a non-empty list it returns the directories of the names the
\* registry holds, in request order, one per occurrence, with one warning
\* per absent name; for an empty list it returns [repoRoot] in repo mode
CE_C29_SelectionNeverRaises ==
    Selected =>
        /\ reg.selection.status = "returned"
        /\ (reg.requested.defined /\ reg.requested.names = <<>>) => RepoMode
        /\ (reg.requested.defined /\ reg.requested.names # <<>>)
              => (DirsInRequestOrder /\ OneWarningPerAbsentName)

\* C29 amended: for a modules flag that is a list handleModuleFlag never
\* raises; for an empty list it returns [repoRoot] in repo mode; for a
\* non-empty list it returns in modules mode the directories of the names
\* the registry holds, in request order, one per occurrence, with one
\* warning per absent name when the registry is not empty and the single
\* warning that no packages were found when it is empty; for an absent
\* flag it raises; the registry map is never modified
Thm_C29_SelectionByRequestOrder ==
    /\ [](Selected =>
            /\ reg.requested.defined <=> reg.selection.status = "returned"
            /\ (reg.requested.defined /\ reg.requested.names = <<>>) => RepoMode
            /\ (reg.requested.defined /\ reg.requested.names # <<>>)
                  => /\ reg.selection.processingMode = "modules"
                     /\ DirsInRequestOrder
                     /\ IF reg.packages = <<>>
                        THEN reg.selection.warnings
                                = << Warning("no packages found", NoName, NoPath) >>
                        ELSE OneWarningPerAbsentName)
    /\ [][(reg.mode = "registry" /\ pc = "loaded")
            => (reg'.packages = reg.packages /\ reg'.loaded = reg.loaded)]_vars

\* a name was requested twice next to an absent name: its directory is in
\* the selection twice, after one warning
Wit_C29 ==
    /\ Selected /\ pc = "selected"
    /\ reg.requested.names = <<"nope", "pkg-b", "pkg-b">>
    /\ Len(reg.selection.targetPackageDirs) = 2
    /\ Len(reg.packages) >= 2
    /\ CountWarnings(reg.selection.warnings, "module not found in workspace") = 1

\* the selection has raised for an absent modules flag
Wit_C29_Absent ==
    /\ Selected /\ pc = "failed"
    /\ ~reg.requested.defined

-----------------------------------------------------------------------------
(* Properties of the resolution *)

\* the files below directory d that getExportsFromFile reports to export name
ExportersOf(root, d, name) ==
    LET files == FileSeq(Lookup(root, d).entries, d)
    IN  { files[i] : i \in { j \in 1..Len(files) :
                               LET e == getExportsFromFile(root, files[j])
                               IN  e.status = "returned" /\ name \in e.exports } }

FilesBelow(root, d) ==
    LET files == FileSeq(Lookup(root, d).entries, d)
    IN  { files[i] : i \in 1..Len(files) }

\* the directory a registry entry stands for, whichever form its path has
RegisteredDir(path) ==
    IF StartsWith(path, repoRoot) THEN path ELSE PathJoin(repoRoot, path)

Returned == { dep.returned[i] : i \in 1..Len(dep.returned) }

\* import references of the requested file that name a symbol of a registered
\* package which exactly one file of the package exports
SoundImport(it) ==
    /\ it.function # NoName
    /\ MapHas(dep.workspaceIndex, it.package)
    /\ Cardinality(ExportersOf(fs, RegisteredDir(MapGet(dep.workspaceIndex, it.package).path),
                               it.function)) = 1

\* C5 as the claim states it: when the requested file imports foo from a
\* registered package P and exactly one file under P exports foo, the result
\* of the resolution holds the absolute path of that file and no file under P
\* that does not export foo; for pkg-b/main.js importing { helper } from
\* pkg-a whose index.js alone exports helper, the result is exactly
\* {<repo>/pkg-b/main.js, <repo>/pkg-a/index.js}
CE_C5_ResolutionReturnsAbsoluteExporter ==
    (pc = "resolved" /\ dep.imports.defined) =>
        /\ \A i \in 1..Len(dep.imports.items) :
              LET it == dep.imports.items[i]
                  d == RegisteredDir(MapGet(dep.workspaceIndex, it.package).path)
              IN  SoundImport(it) =>
                      /\ ExportersOf(fs, d, it.function) \subseteq Returned
                      /\ \A q \in FilesBelow(fs, d) :
                            (q \in Returned \/ Relative(repoRoot, q) \in Returned)
                                => q \in ExportersOf(fs, d, it.function)
        /\ (/\ dep.imports.items = << ImportItem("helper", "pkg-a") >>
            /\ MapHas(dep.workspaceIndex, "pkg-a")
            /\ ExportersOf(fs, dirPkgA, "helper") = { JoinName(dirPkgA, nmIndexJs) })
               => Returned = { JoinName(dirPkgB, nmMainJs), JoinName(dirPkgA, nmIndexJs) }

\* C6: whenever the resolution of a requested file returns, whatever the
\* import references were (none included), the result holds the path of the
\* requested file
Thm_C6_ResultHoldsRequestedFile ==
    pc = "resolved" => dep.filePath \in Returned

\* a resolution has returned the requested file and a dependency
Wit_C6 ==
    /\ pc = "resolved"
    /\ Len(dep.imports.items) > 0
    /\ Len(dep.returned) > 1

\* a resolution of a file without imports has returned
Wit_C6_NoImports ==
    /\ pc = "resolved"
    /\ dep.imports.defined
    /\ dep.imports.items = <<>>

\* the import reference that the loop of getDirectDependencies is about to
\* resolve carries no symbol and names a registered package
SymbolLessRegistered ==
    /\ dep.mode = "resolve" /\ pc = "imports"
    /\ dep.i <= Len(dep.imports.items)
    /\ dep.imports.items[dep.i].function = NoName
    /\ MapHas(dep.workspaceIndex, dep.imports.items[dep.i].package)

\* C15 as stated: an import reference without a symbol that names a
\* registered package adds no file to the resolution and runs no search in
\* the package
CE_C15_SymbolLessImportIsSkipped ==
    [][SymbolLessRegistered
          => /\ dep'.directDependencyPaths = dep.directDependencyPaths
             /\ dep'.searches = dep.searches]_vars

\* what the loop does for such a reference: the package is searched for the
\* word "undefined", and no file is added
SymbolLessImportAddsNoFile ==
    [][SymbolLessRegistered
          => dep'.directDependencyPaths = dep.directDependencyPaths]_vars

\* a search was run for a reference without a symbol
SymbolLessSearched ==
    \E i \in 1..Len(dep.searches) : dep.searches[i].function = NoName

\* the import reference that the loop of getDirectDependencies is about to
\* resolve names a module that is no package of the registry
UnregisteredImport ==
    /\ dep.mode = "resolve" /\ pc = "imports"
    /\ dep.i <= Len(dep.imports.items)
    /\ ~MapHas(dep.workspaceIndex, dep.imports.items[dep.i].package)

\* C22 as stated: an import reference whose module path is no package of the
\* registry adds no file and lets the loop go on to the next reference
CE_C22_UnregisteredImportIsIgnored ==
    [][UnregisteredImport
          => /\ pc' = "imports"
             /\ dep'.i = dep.i + 1
             /\ dep'.directDependencyPaths = dep.directDependencyPaths]_vars

\* what the loop does for such a reference: the resolution of the
\* originating file raises and returns nothing
UnregisteredImportRaises ==
    [][UnregisteredImport => (pc' = "failed" /\ dep'.returned = <<>>)]_vars

\* the resolution has failed on a reference to a module outside the
\* registry while the registry holds a package
FailedOnUnregistered ==
    /\ dep.mode = "resolve" /\ pc = "failed"
    /\ dep.imports.defined
    /\ dep.i <= Len(dep.imports.items)
    /\ dep.imports.items[dep.i].package = "fs"
    /\ MapHas(dep.workspaceIndex, "pkg-a")

\* the candidates that grep reports for the import reference the loop is
\* about to resolve
CandidatesOfImport ==
    LET it == dep.imports.items[dep.i]
    IN  grepWord(fs, it.function,
                 PathJoin(repoRoot, MapGet(dep.workspaceIndex, it.package).path)).files

\* the loop is about to resolve a reference to a registered package for
\* which grep reports a candidate that the export analyzer cannot parse
UnparsableCandidate ==
    /\ dep.mode = "resolve" /\ pc = "imports"
    /\ dep.i <= Len(dep.imports.items)
    /\ MapHas(dep.workspaceIndex, dep.imports.items[dep.i].package)
    /\ \E k \in 1..Len(CandidatesOfImport) :
          /\ \E ext \in extensions : EndsWith(Basename(CandidatesOfImport[k]), ext)
          /\ getExportsFromFile(fs, CandidatesOfImport[k]).status = "raised"

\* C23 as stated: a candidate that the export analyzer cannot read or parse
\* is dropped alone: the loop goes on to the next import and the resolution
\* returns a result
CE_C23_UnparsableCandidateIsDropped ==
    [][UnparsableCandidate => (pc' = "imports" /\ dep'.i = dep.i + 1)]_vars

\* what the code does: the error of the export analyzer leaves
\* findPackageEntryPointRelativePath and ends the resolution
UnparsableCandidateRaises ==
    [][UnparsableCandidate => (pc' = "failed" /\ dep'.returned = <<>>)]_vars

\* a resolution has failed on an unparsable candidate
FailedOnCandidate ==
    /\ dep.mode = "resolve" /\ pc = "failed"
    /\ dep.imports.defined
    /\ dep.i <= Len(dep.imports.items)
    /\ MapHas(dep.workspaceIndex, dep.imports.items[dep.i].package)
    /\ dep.searches # <<>>

\* the path, absolute or relative to the repository root, names a file in
\* the directory of a registered package that the requested file imports
InImportedPackage(p) ==
    \E i \in 1..Len(dep.imports.items) :
        /\ MapHas(dep.workspaceIndex, dep.imports.items[i].package)
        /\ RegisteredDir(p) \in
              FilesBelow(fs, RegisteredDir(MapGet(dep.workspaceIndex,
                                                  dep.imports.items[i].package).path))

\* C28: every path of the result of a resolution is the requested file or
\* a file in the directory of a registered package that the requested file
\* itself imports
Thm_C28_OneHopOnly ==
    (dep.mode = "resolve" /\ pc = "resolved") =>
        \A p \in Returned : p = dep.filePath \/ InImportedPackage(p)

\* a resolution has returned the file of pkg-a that exports helper; that
\* file imports deep from pkg-b, which is registered and whose deep.js
\* exports it, and deep.js is not in the result
Wit_C28 ==
    /\ dep.mode = "resolve" /\ pc = "resolved"
    /\ MapHas(dep.workspaceIndex, "pkg-b")
    /\ Relative(repoRoot, JoinName(dirPkgA, nmIndexJs)) \in Returned
    /\ getImportsFromFile(fs, JoinName(dirPkgA, nmIndexJs)).imports
          = << ImportItem("deep", "pkg-b") >>
    /\ ExportersOf(fs, dirPkgB, "deep") = { JoinName(dirPkgB, srcDeepJs.name) }
    /\ Len(dep.returned) = 2

-----------------------------------------------------------------------------
(* Properties of the traversal *)

\* a name that the active exclusion policy prunes as a directory
PrunedName(name) ==
    \/ name \in directoryExclusions
    \/ \E prefix \in prefixExclusions : StartsWith(name, prefix)

\* p lies strictly below a pruned subdirectory of the target
BelowPruned(p) ==
    \E k \in (Len(targetPath) + 1)..(Len(p) - 1) : PrunedName(p[k])

\* p is a pruned subdirectory of the target, or lies below one
AtOrBelowPruned(p) ==
    \E k \in (Len(targetPath) + 1)..Len(p) : PrunedName(p[k])

InSeq(x, sq) == \E i \in 1..Len(sq) : sq[i] = x

\* no path appears twice in the log
NoRepeat(log) == \A i, j \in 1..Len(log) : log[i] = log[j] => i = j

\* the regular files a traversal with the exclusion policy meets below a listing
RECURSIVE FilesMet(_)
FilesMet(entries) ==
    IF entries = <<>> THEN 0
    ELSE LET e == Head(entries)
         IN  (IF e.kind = "file" THEN 1
              ELSE IF e.kind = "dir" /\ ~PrunedName(e.name) THEN FilesMet(e.entries)
              ELSE 0) + FilesMet(Tail(entries))

\* the file the next step of processFiles examines, if any
VisitedFile ==
    IF InLoop /\ Cur.kind = "file" THEN Cur
    ELSE IF pc = "stat" /\ Lookup(fs, targetPath).kind = "file"
                        /\ Lookup(fs, targetPath).statOk
         THEN Lookup(fs, targetPath)
         ELSE Missing

\* C1: with includeAll=false no pruned subdirectory is listed, no file below one
\* is statted, sniffed, read or recorded, and a traversal that finishes has
\* counted exactly the regular files it met outside the pruned subdirectories
Thm_C1_PrunedDirectoriesContributeNothing ==
    ~includeAll =>
        /\ \A i \in 1..Len(io.readdir) : ~AtOrBelowPruned(io.readdir[i])
        /\ \A i \in 1..Len(io.stat) : ~BelowPruned(io.stat[i])
        /\ \A i \in 1..Len(io.sniff) : ~BelowPruned(io.sniff[i])
        /\ \A i \in 1..Len(io.read) : ~BelowPruned(io.read[i])
        /\ \A i \in 1..Len(output) : ~BelowPruned(output[i].content.of)
        /\ (pc \in {"finish", "returned"} /\ Lookup(fs, targetPath).kind = "dir")
             => processedFiles + skippedFiles = FilesMet(Lookup(fs, targetPath).entries)

\* a traversal of the repository root has returned, having passed a pruned
\* subdirectory that holds a file and having processed another file
Wit_C1 ==
    /\ ~includeAll
    /\ pc = "returned"
    /\ targetPath = repoRoot
    /\ processedFiles > 0
    /\ \E i \in 1..Len(fs) :
          fs[i].kind = "dir" /\ PrunedName(fs[i].name) /\ fs[i].entries # <<>>

\* C2: with includeAll=false the step that examines a file larger than
\* threshold*1024*1024 bytes adds one to skippedFiles and nothing to the
\* output, and no record of such a file is ever in the output
Thm_C2_LargeFileSkipped ==
    /\ [][(~includeAll /\ VisitedFile.kind = "file"
              /\ VisitedFile.size > options.threshold * 1024 * 1024)
            => (skippedFiles' = skippedFiles + 1 /\ output' = output
                  /\ processedFiles' = processedFiles)]_vars
    /\ [](~includeAll =>
            \A i \in 1..Len(output) : output[i].size <= options.threshold * 1024 * 1024)

\* a traversal has returned after skipping a file one byte over the threshold
Wit_C2 ==
    /\ ~includeAll
    /\ pc = "returned"
    /\ targetPath = repoRoot
    /\ InSeq(fileBig, fs)
    /\ skippedFiles > 0

\* C3: the calls of processFiles on one target with the same options over the
\* same snapshot all have the same outcome
Thm_C3_Deterministic ==
    \A i, j \in 1..Len(results) : results[i] = results[j]

\* two calls have returned, each with processed and skipped files
Wit_C3 ==
    /\ Len(results) >= 2
    /\ results[2].status = "returned"
    /\ results[2].processedFiles > 0
    /\ results[2].skippedFiles > 0

\* C7: with includeAll=false the step that examines a binary file under the
\* threshold adds one to skippedFiles and nothing to the output, the file is
\* never read, and no binary content is ever in the output
Thm_C7_BinaryFileSkipped ==
    /\ [][(~includeAll /\ VisitedFile.kind = "file" /\ VisitedFile.binary
              /\ VisitedFile.size <= options.threshold * 1024 * 1024)
            => (skippedFiles' = skippedFiles + 1 /\ output' = output
                  /\ processedFiles' = processedFiles /\ io'.read = io.read)]_vars
    /\ [](~includeAll => \A i \in 1..Len(output) : ~output[i].content.binary)

\* a traversal has returned after sniffing and skipping a small binary file
Wit_C7 ==
    /\ ~includeAll
    /\ pc = "returned"
    /\ targetPath = repoRoot
    /\ InSeq(fileBin, fs)
    /\ InSeq(JoinName(repoRoot, fileBin.name), io.sniff)
    /\ skippedFiles > 0

-----------------------------------------------------------------------------
(* Properties of main *)

\* no regular file is listed in the directories a traversal of the listing
\* enters, and each of them can be listed
RECURSIVE NoFilesAfterExclusions(_, _)
NoFilesAfterExclusions(entries, all) ==
    \A i \in 1..Len(entries) :
        LET e == entries[i]
        IN  /\ e.kind # "file"
            /\ (e.kind = "dir" /\ (all \/ ~PrunedName(e.name)))
                   => (e.readOk /\ NoFilesAfterExclusions(e.entries, all))

EmptyTarget(p) ==
    LET t == Lookup(fs, p)
    IN  /\ t.kind = "dir"
        /\ t.statOk
        /\ t.readOk
        /\ NoFilesAfterExclusions(t.entries, includeAll)

NothingProcessed ==
    [status |-> "returned", output |-> <<>>, processedFiles |-> 0, skippedFiles |-> 0]

AllTargetsEmpty ==
    /\ main.targetPaths # <<>>
    /\ \A i \in 1..Len(main.targetPaths) : EmptyTarget(main.targetPaths[i])

\* C8 as the claim states it: a call of processFiles on a directory without
\* files after exclusions returns processedFiles=0, skippedFiles=0 and an
\* empty output, and a run of main over such targets without an --output
\* path has written no file when it finishes, whatever the other flags are
CE_C8_EmptyTargetWritesNothing ==
    /\ (pc \in {"returned", "raised"} /\ EmptyTarget(targetPath))
           => result = NothingProcessed
    /\ (main.at = "done" /\ ~main.outputFlag.given /\ AllTargetsEmpty)
           => main.written = <<>>

\* C8 amended: the same, the part about main for includeAll=false only
Thm_C8_EmptyTargetWritesNothingUnlessIncludeAll ==
    /\ (pc \in {"returned", "raised"} /\ EmptyTarget(targetPath))
           => result = NothingProcessed
    /\ (main.at = "done" /\ ~main.outputFlag.given /\ AllTargetsEmpty /\ ~includeAll)
           => main.written = <<>>

\* main has finished a run without --output over the repository root, which
\* holds nothing but a pruned directory with a file in it
Wit_C8 ==
    /\ main.at = "done"
    /\ ~main.outputFlag.given
    /\ ~includeAll
    /\ main.targetPaths = <<repoRoot>>
    /\ EmptyTarget(repoRoot)
    /\ \E i \in 1..Len(fs) : fs[i].kind = "dir" /\ fs[i].entries # <<>>
    /\ result = NothingProcessed
    /\ main.written = <<>>

\* C10: when main finishes a run that produced no content (no target paths,
\* or no target added anything to the output) and an --output path was
\* given, the empty file has been written to that path
Thm_C10_EmptyFileWrittenToOutputPath ==
    (/\ main.at = "done"
     /\ main.outputFlag.given
     /\ main.outputFlag.path # <<>>
     /\ main.combinedContent = <<>>)
        => main.written = << [path |-> main.outputFlag.path, content |-> <<>>] >>

\* main has finished a run with --output out.txt whose targets were
\* traversed, skipped what they met and added nothing to the content
Wit_C10 ==
    /\ main.at = "done"
    /\ main.outputFlag = OutputFlag(nmOutTxt)
    /\ main.targetPaths # <<>>
    /\ main.totalSkippedFiles > 0
    /\ main.combinedContent = <<>>
    /\ main.written # <<>>

\* main has finished a run with --output out.txt that had no target paths
Wit_C10_NoTargets ==
    /\ main.at = "done"
    /\ main.outputFlag = OutputFlag(nmOutTxt)
    /\ main.targetPaths = <<>>
    /\ main.written # <<>>

\* C11: when processFiles raises for a target of main, the loop goes on to
\* the next target with the combined content and the totals as they were, and
\* a run of main that finishes has called processFiles on every target path
\* in the order of the list
Thm_C11_FailingTargetIsPassedOver ==
    /\ [][(main.mode = "main" /\ pc = "raised")
            => /\ main'.at = "loop"
               /\ main'.k = main.k + 1
               /\ main'.combinedContent = main.combinedContent
               /\ main'.totalProcessedFiles = main.totalProcessedFiles
               /\ main'.totalSkippedFiles = main.totalSkippedFiles]_vars
    /\ [](main.mode = "main" /\ main.at = "done" => main.visited = main.targetPaths)

\* main has finished a run of three targets whose second raised, with content
\* from the first and from the third
Wit_C11 ==
    /\ main.at = "done"
    /\ Len(main.targetPaths) = 3
    /\ ~EmptyTarget(main.targetPaths[2])
    /\ Lookup(fs, JoinName(main.targetPaths[2], <<"priv">>)).kind = "dir"
    /\ \E i, j \in 1..Len(main.combinedContent) :
          /\ i < j
          /\ StartsWith(main.combinedContent[i].content.of, main.targetPaths[1])
          /\ StartsWith(main.combinedContent[j].content.of, main.targetPaths[3])
    /\ \A i \in 1..Len(main.combinedContent) :
          ~StartsWith(main.combinedContent[i].content.of, main.targetPaths[2])

\* main is about to select the targets of a batch of two or more files given
\* with the files flag, dependencies included, in a run that comes as far
\* as handleFileFlag
BatchWithDependencies ==
    /\ main.mode = "main" /\ main.at = "start"
    /\ main.isRepository
    /\ globPatternsOf(fs).defined
    /\ main.filesFlag.defined /\ Len(main.filesFlag.paths) >= 2
    /\ ~main.onlyExtractFile
    /\ \A i \in 1..Len(main.filesFlag.paths) :
          LET t == Lookup(fs, main.filesFlag.paths[i])
          IN  t.statOk /\ t.kind \in {"file", "dir"}

\* C16 as stated: when the resolution of one requested file of a batch
\* raises, handleFileFlag still returns, and the targets hold the other
\* requested files
CE_C16_BatchSurvivesFailingFile ==
    [][BatchWithDependencies
          => /\ main'.at = "loop"
             /\ \E j \in 1..Len(main.filesFlag.paths) :
                   \A i \in 1..Len(main.filesFlag.paths) \ {j} :
                       InSeq(main.filesFlag.paths[i], main'.targetPaths)]_vars

\* what the loop of handleFileFlag does: the error raised for one requested
\* file leaves handleFileFlag, and main ends in its catch with no target
BatchAbortsOnFailingFile ==
    [][BatchWithDependencies
          => main'.at = "failed" /\ main'.targetPaths = <<>>]_vars

\* a batch of two files was given without dependencies and both were visited
BatchExtracted ==
    /\ main.mode = "main" /\ main.at = "done"
    /\ Len(main.filesFlag.paths) = 2
    /\ main.visited = main.filesFlag.paths

\* the root path given to the run is missing, does not exist, or is neither
\* a file nor a directory
InvalidRoot == main.mode = "main" /\ main.input # "directory"

\* C18: with a root path that is missing, does not exist or is neither a
\* file nor a directory, validateInput raises, main goes from its start to
\* its catch without a target traversed or an output written, and the catch
\* ends the run: exit(1), or, under NODE_ENV=test, the error rethrown to the
\* caller of main
Thm_C18_InvalidRootAborts ==
    /\ [](InvalidRoot
            => /\ validateInput(main.input, main.isRepository).status = "raised"
               /\ main.at \in {"start", "failed", "exited", "rethrown"}
               /\ main.targetPaths = <<>> /\ main.visited = <<>>
               /\ pc = "idle" /\ io = NoIo /\ output = <<>>
               /\ main.written = <<>>
               /\ main.at = "exited" => main.exitStatus = 1)
    /\ [][(InvalidRoot /\ main.at = "start") => main'.at = "failed"]_vars
    /\ [][(InvalidRoot /\ main.at = "failed")
            => main'.at = (IF main.nodeEnvTest THEN "rethrown" ELSE "exited")]_vars

\* a run on a path that does not exist has ended with exit status 1
Wit_C18 ==
    /\ main.mode = "main" /\ main.input = "absent"
    /\ main.at = "exited" /\ main.exitStatus = 1

\* a run without a root path has ended; so has a run on a path that is
\* neither a file nor a directory
Wit_C18_Missing ==
    /\ main.mode = "main" /\ main.input = "missing" /\ main.at = "exited"

Wit_C18_Special ==
    /\ main.mode = "main" /\ main.input = "special" /\ main.at = "exited"

\* main is about to select the targets of the files given with the files
\* flag, one of them given twice, in a run that comes as far as handleFileFlag
BatchWithRepeat ==
    /\ main.mode = "main" /\ main.at = "start"
    /\ main.isRepository
    /\ globPatternsOf(fs).defined
    /\ main.filesFlag.defined
    /\ ~NoRepeat(main.filesFlag.paths)
    /\ \A i \in 1..Len(main.filesFlag.paths) :
          LET t == Lookup(fs, main.filesFlag.paths[i])
          IN  t.statOk /\ t.kind \in {"file", "dir"}

\* the target list holds each requested path once, and nothing is visited twice
EachRequestedOnce(m) ==
    /\ NoRepeat(m.targetPaths)
    /\ \A i \in 1..Len(m.filesFlag.paths) : InSeq(m.filesFlag.paths[i], m.targetPaths)

\* C26 as stated: the target list that main hands to the traversal never
\* holds a path twice, and from files requested with the files flag, with
\* or without their dependencies, main goes on to its loop with every
\* requested file in the list exactly once
CE_C26_ExpandedTargetsAreUnique ==
    /\ [](main.mode = "main" => NoRepeat(main.targetPaths) /\ NoRepeat(main.visited))
    /\ [][BatchWithRepeat
            => (main'.at = "loop" /\ EachRequestedOnce(main'))]_vars

\* what holds of the code: the target list never holds a path twice, and
\* without dependency expansion a file requested twice is a target once
TargetsAreUniqueWithoutExpansion ==
    /\ [](main.mode = "main" => NoRepeat(main.targetPaths) /\ NoRepeat(main.visited))
    /\ [][(BatchWithRepeat /\ main.onlyExtractFile)
            => (main'.at = "loop" /\ EachRequestedOnce(main'))]_vars
    /\ [][(BatchWithRepeat /\ ~main.onlyExtractFile) => main'.at = "failed"]_vars

\* a file requested twice was visited once
RequestedTwiceVisitedOnce ==
    /\ main.mode = "main" /\ main.at = "done"
    /\ Len(main.filesFlag.paths) = 3
    /\ Len(main.visited) = 2

-----------------------------------------------------------------------------
(* Properties of the traversal: failures, includeAll, exclusions, order *)

\* the paths of the regular files listed in the directories a traversal of
\* the listing enters
RECURSIVE FilesEntered(_, _, _)
FilesEntered(entries, dir, all) ==
    IF entries = <<>> THEN {}
    ELSE LET e == Head(entries)
             q == JoinName(dir, e.name)
         IN  (IF e.kind = "file" THEN {q}
              ELSE IF e.kind = "dir" /\ (all \/ ~PrunedName(e.name))
                   THEN FilesEntered(e.entries, q, all)
              ELSE {}) \cup FilesEntered(Tail(entries), dir, all)

\* the call was ended by the target itself or by a directory that cannot be listed
RaisedByTargetOrDirectory ==
    \/ LET t == Lookup(fs, targetPath) IN ~t.statOk \/ t.kind \notin {"file", "dir"}
    \/ /\ io.readdir # <<>>
       /\ LET d == Lookup(fs, io.readdir[Len(io.readdir)])
          IN  d.kind = "dir" /\ ~d.readOk

\* C12: the step that meets a listed file whose stat or read fails adds one
\* to skippedFiles, nothing to the output or to processedFiles, and moves the
\* loop to the next entry; no call is ended by a file, and a traversal that
\* returns has statted every file listed in the directories it entered
Thm_C12_FailingFileIsSkipped ==
    /\ [][(InLoop /\ Cur.kind = "file" /\ (~Cur.statOk \/ ~Cur.readOk))
            => /\ skippedFiles' = skippedFiles + 1
               /\ output' = output
               /\ processedFiles' = processedFiles
               /\ pc' = "traverse"
               /\ stack' = NextEntry]_vars
    /\ [](pc = "raised" => RaisedByTargetOrDirectory)
    /\ []((pc = "returned" /\ Lookup(fs, targetPath).kind = "dir")
            => \A q \in FilesEntered(Lookup(fs, targetPath).entries, targetPath, includeAll) :
                  InSeq(q, io.stat))

\* a traversal has returned after a file that vanished, a file that cannot be
\* read and a file it processed after them
Wit_C12 ==
    /\ pc = "returned"
    /\ targetPath = repoRoot
    /\ \E i, j \in 1..Len(fs) :
          /\ i < j
          /\ fs[i] \in {fileGone, fileLocked}
          /\ fs[j] = fileText
    /\ skippedFiles = 1
    /\ processedFiles = 1
    /\ output[1].content.of = JoinName(repoRoot, fileText.name)

\* the regular files below the target when nothing is pruned, or the target
\* itself when it is a file
AllFilesBelowTarget ==
    LET t == Lookup(fs, targetPath)
    IN  IF t.kind = "dir" THEN FilesEntered(t.entries, targetPath, TRUE)
        ELSE IF t.kind = "file" THEN {targetPath}
        ELSE {}

\* the file at path q can be statted and read
Readable(q) == Lookup(fs, q).statOk /\ Lookup(fs, q).readOk

\* the output holds a record of the file at path q
Recorded(q) == \E i \in 1..Len(output) : output[i].content.of = q

\* C17: a call with includeAll=true that returns has asked no sniffer, has
\* read and recorded every regular file below the target that can be statted
\* and read, whatever its name, its directory, its size and its content, and
\* has counted those files as processed and the others as skipped
Thm_C17_IncludeAllFiltersNothing ==
    (options.includeAll /\ pc = "returned") =>
        /\ io.sniff = <<>>
        /\ \A q \in AllFilesBelowTarget :
              /\ InSeq(q, io.stat)
              /\ Readable(q) => (InSeq(q, io.read) /\ Recorded(q))
              /\ ~Readable(q) => ~Recorded(q)
        /\ processedFiles = Cardinality({ q \in AllFilesBelowTarget : Readable(q) })
        /\ skippedFiles = Cardinality({ q \in AllFilesBelowTarget : ~Readable(q) })

\* a call with includeAll=true has returned with the record of a file below
\* node_modules and the record of a binary file
Wit_C17 ==
    /\ options.includeAll /\ pc = "returned"
    /\ \E i \in 1..Len(output) :
          \E k \in 1..Len(output[i].content.of) :
              output[i].content.of[k] = <<"node_modules">>
    /\ \E i \in 1..Len(output) : output[i].content.binary

\* a call with includeAll=true has returned with the record of a file whose
\* name is excluded and the record of a file above the size threshold
Wit_C17_NameAndSize ==
    /\ options.includeAll /\ pc = "returned"
    /\ \E i \in 1..Len(output) : isExcludedFile(Basename(output[i].content.of))
    /\ \E i \in 1..Len(output) : output[i].size > thresholdBytes

\* the base name is in the file-name exclusions or starts with an excluded prefix
NameExcluded(name) ==
    \/ name \in fileExclusions
    \/ \E prefix \in prefixExclusions : StartsWith(name, prefix)

\* C19: with includeAll=false the step that examines a file with an excluded
\* base name, met in a directory or given as the target, adds one to
\* skippedFiles and nothing to the output or to processedFiles without the
\* file being sniffed or read, and no record of such a file is ever in the
\* output
Thm_C19_ExcludedNameRejectedFirst ==
    /\ [][(~options.includeAll /\ VisitedFile.kind = "file"
              /\ NameExcluded(VisitedFile.name))
            => /\ skippedFiles' = skippedFiles + 1
               /\ output' = output
               /\ processedFiles' = processedFiles
               /\ io'.sniff = io.sniff
               /\ io'.read = io.read]_vars
    /\ [](~options.includeAll =>
            \A i \in 1..Len(output) : ~NameExcluded(Basename(output[i].content.of)))

\* a traversal of the repository root has returned after rejecting a file
\* with an excluded prefix that is also binary and above the threshold:
\* it was counted once and never sniffed
Wit_C19 ==
    /\ ~options.includeAll /\ pc = "returned"
    /\ targetPath = repoRoot
    /\ fs = <<fileDot, fileText>>
    /\ skippedFiles = 1 /\ processedFiles = 1
    /\ io.sniff = <<JoinName(repoRoot, fileText.name)>>

\* a call on a target that is a file with an excluded name has returned
Wit_C19_Target ==
    /\ ~options.includeAll /\ pc = "returned"
    /\ targetPath = JoinName(repoRoot, fileLock.name)
    /\ skippedFiles = 1 /\ processedFiles = 0
    /\ io.sniff = <<>> /\ io.read = <<>> /\ output = <<>>

\* the file passes the filters of the policy and can be statted and read
Accepted(f, all) ==
    /\ f.statOk /\ f.readOk
    /\ all \/ /\ ~NameExcluded(f.name)
              /\ f.size <= options.threshold * 1024 * 1024
              /\ ~f.binary

\* the records of a listing in visiting order: entry after entry, the
\* records of a subdirectory standing where its entry stands
RECURSIVE RecordsInOrder(_, _, _)
RecordsInOrder(entries, dir, all) ==
    IF entries = <<>> THEN <<>>
    ELSE LET e == Head(entries)
             q == JoinName(dir, e.name)
         IN  (IF e.kind = "file"
              THEN IF Accepted(e, all) THEN <<FileRecord(q, e)>> ELSE <<>>
              ELSE IF e.kind = "dir" /\ (all \/ ~PrunedName(e.name))
                   THEN RecordsInOrder(e.entries, q, all)
              ELSE <<>>)
             \o RecordsInOrder(Tail(entries), dir, all)

\* a traversal of the listing meets a directory it cannot list
RECURSIVE MeetsUnlistable(_, _)
MeetsUnlistable(entries, all) ==
    \E i \in 1..Len(entries) :
        /\ entries[i].kind = "dir"
        /\ all \/ ~PrunedName(entries[i].name)
        /\ ~entries[i].readOk \/ MeetsUnlistable(entries[i].entries, all)

\* what one target adds to the output: nothing when its call raises
RecordsOfTarget(t, all) ==
    LET e == Lookup(fs, t)
    IN  IF e.kind = "file"
        THEN IF Accepted(e, all) THEN <<FileRecord(t, e)>> ELSE <<>>
        ELSE IF e.kind = "dir" /\ e.readOk /\ ~MeetsUnlistable(e.entries, all)
        THEN RecordsInOrder(e.entries, t, all)
        ELSE <<>>

\* the records of the targets, target after target
RECURSIVE RecordsOfTargets(_, _)
RecordsOfTargets(targets, all) ==
    IF targets = <<>> THEN <<>>
    ELSE RecordsOfTarget(Head(targets), all) \o RecordsOfTargets(Tail(targets), all)

\* C20: between two targets the combined content is the records of the
\* targets visited so far, target after target in the order of the target
\* list, each target's records depth-first in listing order with the records
\* of a subdirectory at the position of its entry; the output written is
\* that sequence for the whole list, or empty
Thm_C20_OutputInVisitingOrder ==
    /\ (main.mode = "main" /\ main.at = "loop" /\ pc = "idle")
          => main.combinedContent =
                RecordsOfTargets(SubSeq(main.targetPaths, 1, main.k - 1), options.includeAll)
    /\ (main.mode = "main" /\ pc = "returned")
          => output = RecordsOfTarget(targetPath, options.includeAll)
    /\ (main.mode = "main" /\ main.at = "done")
          => /\ main.combinedContent = RecordsOfTargets(main.targetPaths, options.includeAll)
             /\ \A i \in 1..Len(main.written) :
                   main.written[i].content \in {<<>>, main.combinedContent}

\* two targets were visited and the output written holds the records of the
\* first ahead of the records of the second
Wit_C20 ==
    /\ main.mode = "main" /\ main.at = "done"
    /\ Len(main.targetPaths) = 2
    /\ RecordsOfTarget(main.targetPaths[1], options.includeAll) # <<>>
    /\ RecordsOfTarget(main.targetPaths[2], options.includeAll) # <<>>
    /\ RecordsOfTarget(main.targetPaths[1], options.includeAll)
          # RecordsOfTarget(main.targetPaths[2], options.includeAll)
    /\ Len(main.written) = 1
    /\ main.written[1].content = main.combinedContent

\* the output written has a file of a directory, the file of its
\* subdirectory, the file after the subdirectory and the file after the
\* directory, in this order
Wit_C20_Nested ==
    /\ main.mode = "main" /\ main.at = "done"
    /\ Len(main.written) = 1
    /\ [i \in 1..Len(main.written[1].content) |-> main.written[1].content[i].content.of]
          = << repoRoot \o <<<<"src">>, fileEdge.name>>,
               repoRoot \o <<<<"src">>, <<"lib">>, fileText.name>>,
               repoRoot \o <<<<"src">>, fileText.name>>,
               repoRoot \o <<fileText.name>> >>

\* the path is in both logs of the call
LoggedInBoth(q, first, then) ==
    /\ InSeq(q, first)
    /\ InSeq(q, then)

\* C21: every record of the output is the record of a regular file that was
\* statted and read in this call and, with includeAll=false, whose name is
\* not excluded, whose size is within the threshold and which the sniffer
\* found to be text; nothing is read that is not a regular file, and nothing
\* is read, with includeAll=false, before it was sniffed
Thm_C21_OnlyAdmittedRegularFiles ==
    /\ \A i \in 1..Len(output) :
          LET q == output[i].content.of
              f == Lookup(fs, q)
          IN  /\ f.kind = "file"
              /\ LoggedInBoth(q, io.stat, io.read)
              /\ ~options.includeAll =>
                    /\ ~NameExcluded(Basename(q))
                    /\ f.size <= options.threshold * 1024 * 1024
                    /\ ~f.binary
                    /\ InSeq(q, io.sniff)
    /\ \A i \in 1..Len(io.read) :
          /\ Lookup(fs, io.read[i]).kind = "file"
          /\ InSeq(io.read[i], io.stat)
          /\ ~options.includeAll => InSeq(io.read[i], io.sniff)
    /\ Len(output) <= Len(io.read)

\* a traversal with includeAll=false has returned with a record, having met
\* a special file and a file that the filters reject
Wit_C21 ==
    /\ ~options.includeAll /\ pc = "returned"
    /\ targetPath = repoRoot
    /\ \E i \in 1..Len(fs) : fs[i].kind = "other"
    /\ Len(output) = 1

\* a traversal has returned with a record next to a rejected binary file
Wit_C21_Filtered ==
    /\ ~options.includeAll /\ pc = "returned"
    /\ fs = <<fileBin, fileText>>
    /\ Len(output) = 1 /\ skippedFiles = 1

\* the entries that are still to be visited in the frames of the stack
RECURSIVE EntriesLeft(_)
EntriesLeft(st) ==
    IF st = <<>> THEN 0
    ELSE (Len(st[1].entries) + 1 - st[1].i) + EntriesLeft(Tail(st))

\* C25: a call of processFiles that has started ends, by its return or by
\* an error; on the way no directory is listed twice and no entry is statted
\* twice, every step of a loop takes it to its next entry, and when the
\* call has raised its outcome carries no output and no counts and the next
\* step hands it to the caller
Thm_C25_TraversalFinishes ==
    /\ (pc = "call") ~> (pc \in {"returned", "raised"})
    /\ [](NoRepeat(io.readdir) /\ NoRepeat(io.stat))
    /\ [](pc = "raised" => result = [status |-> "raised"])
    /\ [][(InLoop /\ pc' = "traverse" /\ Len(stack') = Len(stack))
            => EntriesLeft(stack') = EntriesLeft(stack) - 1]_vars
    /\ [][(main = NoMain /\ pc \in {"returned", "raised"})
            => (pc' = "idle" /\ Len(results') = Len(results) + 1)]_vars

\* a traversal has returned after two levels of subdirectories
Wit_C25 ==
    /\ main = NoMain /\ pc = "returned"
    /\ Len(io.readdir) >= 3
    /\ processedFiles + skippedFiles >= 2

\* a traversal has raised after it had processed a file
Wit_C25_Raised ==
    /\ main = NoMain /\ pc = "raised"
    /\ processedFiles >= 1
    /\ result = [status |-> "raised"]

\* the regular files a call on the target meets in the directories it enters
FilesOfTarget(t, all) ==
    LET e == Lookup(fs, t)
    IN  IF e.kind = "file" THEN {t}
        ELSE IF e.kind = "dir" THEN FilesEntered(e.entries, t, all)
        ELSE {}

\* the call on the target returns
TargetReturns(t, all) ==
    LET e == Lookup(fs, t)
    IN  \/ e.kind = "file" /\ e.statOk
        \/ e.kind = "dir" /\ e.statOk /\ e.readOk /\ ~MeetsUnlistable(e.entries, all)

ProcessedOfTarget(t, all) ==
    IF TargetReturns(t, all)
    THEN Cardinality({ q \in FilesOfTarget(t, all) : Accepted(Lookup(fs, q), all) })
    ELSE 0

SkippedOfTarget(t, all) ==
    IF TargetReturns(t, all)
    THEN Cardinality({ q \in FilesOfTarget(t, all) : ~Accepted(Lookup(fs, q), all) })
    ELSE 0

\* the sums over the first n targets of the list
RECURSIVE SumProcessed(_, _)
SumProcessed(n, all) ==
    IF n = 0 THEN 0
    ELSE SumProcessed(n - 1, all) + ProcessedOfTarget(main.targetPaths[n], all)

RECURSIVE SumSkipped(_, _)
SumSkipped(n, all) ==
    IF n = 0 THEN 0
    ELSE SumSkipped(n - 1, all) + SkippedOfTarget(main.targetPaths[n], all)

\* C30: when processFiles returns, every regular file met in a directory
\* that was entered is counted once: in processedFiles when it was admitted
\* and read, whose number is the number of records of the output, and in
\* skippedFiles otherwise; the totals of main are the sums of the counts of
\* the targets whose call returned
Thm_C30_ExactAccounting ==
    /\ (main.mode = "main" /\ pc = "returned")
          => /\ processedFiles = Len(output)
             /\ processedFiles = ProcessedOfTarget(targetPath, options.includeAll)
             /\ skippedFiles = SkippedOfTarget(targetPath, options.includeAll)
             /\ processedFiles + skippedFiles
                   = Cardinality(FilesOfTarget(targetPath, options.includeAll))
             /\ result.processedFiles = processedFiles
             /\ result.skippedFiles = skippedFiles
    /\ (main.mode = "main" /\ main.at \in {"loop", "done"} /\ pc = "idle")
          => /\ main.totalProcessedFiles = SumProcessed(main.k - 1, options.includeAll)
             /\ main.totalSkippedFiles = SumSkipped(main.k - 1, options.includeAll)
             /\ main.totalProcessedFiles = Len(main.combinedContent)

\* main is done with two targets, one whose call raised and one whose call
\* returned with a processed file
Wit_C30 ==
    /\ main.mode = "main" /\ main.at = "done"
    /\ Len(main.targetPaths) = 2
    /\ \E k \in 1..2 : ~TargetReturns(main.targetPaths[k], options.includeAll)
    /\ main.totalProcessedFiles >= 1

\* main is done with a target in which a file was skipped because its stat
\* failed
Wit_C30_Skipped ==
    /\ main.mode = "main" /\ main.at = "done"
    /\ fs = <<fileGone>>
    /\ main.totalSkippedFiles = 1 /\ main.totalProcessedFiles = 0

====
